---- MODULE Spec2Model ----
(***************************************************************************)
(* FastORM (redjem-amir/fastorm): the metadata registry, the persistence   *)
(* function save, the schema synchronizer and the Repository.              *)
(*                                                                         *)
(* Conventions of the model                                                *)
(*  - a JavaScript string that the code computes on (a class name, a       *)
(*    property name, a table name) is the sequence of its UTF-16 code      *)
(*    units, so that toLowerCase, sort, join and `${x}_id` are computed;   *)
(*  - an SQL text or a cache key built by a template literal is the        *)
(*    sequence of its tokens (keywords, identifiers, $n placeholders,      *)
(*    numbers); white space is not kept;                                   *)
(*  - a JavaScript value is a record [t, n]: its type tag and its payload; *)
(*  - an async function is a process: it runs atomically up to each await  *)
(*    and `pc` names the await it is suspended at.                         *)
(***************************************************************************)
EXTENDS Integers, Sequences, FiniteSets, TLC

VARIABLES
    entities,   \* MetadataStorage.entities
    columns,    \* MetadataStorage.columns
    relations,  \* MetadataStorage.relations
    pool,       \* PoolFactory: "unset", "configured" or "ready" (pool assigned)
    sqlCache,   \* Repository.sqlCache: cache key -> SQL text
    listeners,  \* EventEmitter.listeners: event name -> sequence of listeners
    repos,      \* the Repository instances constructed so far
    created,    \* database: names of the tables that exist
    store,      \* database: table name -> sequence of rows
    pc,         \* where the running async call is suspended ("idle": none)
    frame,      \* local variables of the running (or last) call
    pending,    \* the argument of the pool.query call being awaited
    trace,      \* effects of the running (or last) call, in order
    outcome,    \* how the last call ended
    ncalls,     \* number of repository calls started
    pools       \* the Pool objects constructed so far: how connect() of each stands

vars == <<entities, columns, relations, pool, sqlCache, listeners, repos,
          created, store, pc, frame, pending, trace, outcome, ncalls,
          pools>>

regVars == <<entities, columns, relations>>

----------------------------------------------------------------------------
(* Strings                                                                 *)

s_User   == <<85, 115, 101, 114>>            \* "User"
s_Role   == <<82, 111, 108, 101>>            \* "Role"
s_Post   == <<80, 111, 115, 116>>            \* "Post"
s_Tag    == <<84, 97, 103>>                  \* "Tag"
s_Draft  == <<68, 114, 97, 102, 116>>        \* "Draft"
s_users  == <<117, 115, 101, 114, 115>>      \* "users"
s_id     == <<105, 100>>                     \* "id"
s_name   == <<110, 97, 109, 101>>            \* "name"
s_title  == <<116, 105, 116, 108, 101>>      \* "title"
s_author == <<97, 117, 116, 104, 111, 114>>  \* "author"
s_posts  == <<112, 111, 115, 116, 115>>      \* "posts"
s_roles  == <<114, 111, 108, 101, 115>>      \* "roles"
s__id    == <<95, 105, 100>>                 \* "_id"
s__      == <<95>>                           \* "_"

\* String.prototype.toLowerCase on ASCII: A-Z (65..90) become a-z.
toLowerCase(s) ==
    [i \in 1..Len(s) |-> IF s[i] >= 65 /\ s[i] <= 90 THEN s[i] + 32 ELSE s[i]]

\* a < b on strings: comparison by code units.
RECURSIVE StrLess(_, _)
StrLess(a, b) ==
    IF Len(b) = 0 THEN FALSE
    ELSE IF Len(a) = 0 THEN TRUE
    ELSE IF a[1] # b[1] THEN a[1] < b[1]
    ELSE StrLess(Tail(a), Tail(b))

\* [a, b].sort(): the default comparator orders strings by code units.
sort(pair) ==
    IF StrLess(pair[2], pair[1]) THEN <<pair[2], pair[1]>> ELSE pair

\* Array.prototype.join on strings (or on token sequences).
RECURSIVE join(_, _)
join(parts, sep) ==
    IF Len(parts) = 0 THEN <<>>
    ELSE IF Len(parts) = 1 THEN parts[1]
    ELSE parts[1] \o sep \o join(Tail(parts), sep)

\* Function.name of the classes of the model.
ClassName(c) ==
    CASE c = "User" -> s_User
      [] c = "Role" -> s_Role
      [] c = "Post" -> s_Post
      [] c = "Tag" -> s_Tag
      [] c = "Draft" -> s_Draft
      [] c = "UserB" -> s_User     \* a second class that is also named User
      [] OTHER -> <<>>

----------------------------------------------------------------------------
(* JavaScript values                                                       *)

Undefined == [t |-> "undefined", n |-> 0]
Null      == [t |-> "null", n |-> 0]
Number(n) == [t |-> "number", n |-> n]
String(n) == [t |-> "string", n |-> n]   \* n = 0 is the empty string

\* Boolean(v): undefined, null, 0 and "" are falsy.
Truthy(v) == ~(v.t \in {"undefined", "null"} \/ (v.t \in {"number", "string"} /\ v.n = 0))

\* obj[key]: undefined when the object has no such property.
Get(obj, key) == IF key \in DOMAIN obj THEN obj[key] ELSE Undefined

\* An object literal as the sequence of its own entries, in key order.
Keys(obj)   == [i \in 1..Len(obj) |-> obj[i].k]
Values(obj) == [i \in 1..Len(obj) |-> obj[i].v]

----------------------------------------------------------------------------
(* Tokens of a generated text                                              *)

Kw(s)  == [k |-> s, v |-> <<>>]        \* a literal piece of the template
Id(s)  == [k |-> "ident", v |-> s]     \* an interpolated name
Ph(i)  == [k |-> "$", v |-> <<i>>]     \* the placeholder $i
Lit(n) == [k |-> "number", v |-> <<n>>]

----------------------------------------------------------------------------
(* MetadataStorage                                                         *)

NoEntity == [target |-> "undefined", tableName |-> <<>>]

getEntityIn(ents, target) ==
    LET found == SelectSeq(ents, LAMBDA e : e.target = target)
    IN  IF Len(found) = 0 THEN NoEntity ELSE found[1]

getEntity(target)    == getEntityIn(entities, target)
getEntities          == entities
\* A lookup that compares the names of the classes.
getColumnsByName(target) ==
    SelectSeq(columns, LAMBDA c : ClassName(c.target) = ClassName(target))

getColumns(target)   == SelectSeq(columns, LAMBDA c : c.target = target)
getRelations(target) == SelectSeq(relations, LAMBDA r : r.target = target)

----------------------------------------------------------------------------
(* Decorators: each is a registration call on the MetadataStorage. A       *)
(* registry value is the record of its three lists.                        *)

EmptyRegistry == [entities |-> <<>>, columns |-> <<>>, relations |-> <<>>]

addEntity(reg, e)   == [reg EXCEPT !.entities = Append(@, e)]
addColumn(reg, c)   == [reg EXCEPT !.columns = Append(@, c)]
addRelation(reg, r) == [reg EXCEPT !.relations = Append(@, r)]

\* @Entity(tableName?): the name given, or the lower-cased class name.
Entity(reg, target, tableName) ==
    addEntity(reg, [target |-> target,
                    tableName |-> IF Len(tableName) > 0 THEN tableName
                                  ELSE toLowerCase(ClassName(target))])

Column(reg, target, propertyKey) ==
    addColumn(reg, [target |-> target, propertyName |-> propertyKey,
                    primary |-> FALSE, generated |-> FALSE])

PrimaryColumn(reg, target, propertyKey) ==
    addColumn(reg, [target |-> target, propertyName |-> propertyKey,
                    primary |-> TRUE, generated |-> FALSE])

PrimaryGeneratedColumn(reg, target, propertyKey) ==
    addColumn(reg, [target |-> target, propertyName |-> propertyKey,
                    primary |-> TRUE, generated |-> TRUE])

\* @ManyToOne, @OneToMany, @OneToOne, @ManyToMany(() => relatedEntity)
createRelationDecorator(reg, type, target, propertyKey, relatedEntity) ==
    addRelation(reg, [target |-> target, propertyName |-> propertyKey,
                      relationType |-> type, relatedEntity |-> relatedEntity])

RelationTypes == {"OneToOne", "OneToMany", "ManyToOne", "ManyToMany"}

\* One decorated member of a class: [dec, p, to].
Member(dec, p, to) == [dec |-> dec, p |-> p, to |-> to]

ApplyMember(reg, cls, m) ==
    CASE m.dec = "Column" -> Column(reg, cls, m.p)
      [] m.dec = "PrimaryColumn" -> PrimaryColumn(reg, cls, m.p)
      [] m.dec = "PrimaryGeneratedColumn" -> PrimaryGeneratedColumn(reg, cls, m.p)
      [] OTHER -> createRelationDecorator(reg, m.dec, cls, m.p, m.to)

RECURSIVE ApplyMembers(_, _, _)
ApplyMembers(reg, cls, ms) ==
    IF Len(ms) = 0 THEN reg
    ELSE ApplyMembers(ApplyMember(reg, cls, ms[1]), cls, Tail(ms))

\* Evaluating a class definition: the property decorators run in declaration
\* order, then the class decorator (when the class is decorated with @Entity).
DeclareClass(reg, d) ==
    LET r1 == ApplyMembers(reg, d.cls, d.members)
    IN  IF d.entity THEN Entity(r1, d.cls, d.tableName) ELSE r1

RECURSIVE LoadClasses(_, _)
LoadClasses(reg, ds) ==
    IF Len(ds) = 0 THEN reg
    ELSE LoadClasses(DeclareClass(reg, ds[1]), Tail(ds))

Class(cls, entity, tableName, members) ==
    [cls |-> cls, entity |-> entity, tableName |-> tableName, members |-> members]

----------------------------------------------------------------------------
(* Effects and results of a call                                           *)

NoQuery  == [name |-> <<>>, text |-> <<>>, values |-> <<>>]
Query(name, text, values) == [name |-> name, text |-> text, values |-> values]

\* One entry of the trace: a statement handed to pool.query (with the call
\* site that issued it), a run of the builder handed to getOrCacheSQL, the settling of the awaited statement ("ok" or the
\* error), a notification handed to globalEvents.emit, a console.error /
\* console.warn line.
EvQuery(site, q)    == [ev |-> "query", name |-> site, tbl |-> <<>>, q |-> q,
                        arg |-> [cls |-> "undefined", props |-> <<>>]]
EvEmitTable(tbl)    == [ev |-> "emit", name |-> "synchronize", tbl |-> tbl,
                        q |-> NoQuery, arg |-> [cls |-> "undefined", props |-> <<>>]]
EvEmitEntity(e)     == [ev |-> "emit", name |-> "save", tbl |-> <<>>, q |-> NoQuery,
                        arg |-> e]
EvSettled(result)   == [ev |-> "settled", name |-> result, tbl |-> <<>>, q |-> NoQuery,
                        arg |-> [cls |-> "undefined", props |-> <<>>]]
EvBuild(key, text)  == [ev |-> "build", name |-> "getOrCacheSQL", tbl |-> <<>>,
                        q |-> [name |-> key, text |-> text, values |-> <<>>],
                        arg |-> [cls |-> "undefined", props |-> <<>>]]
EvLog(level, tbl)   == [ev |-> "log", name |-> level, tbl |-> tbl, q |-> NoQuery,
                        arg |-> [cls |-> "undefined", props |-> <<>>]]

NoOutcome      == [status |-> "none", error |-> "", value |-> <<>>]
Returned(v)    == [status |-> "returned", error |-> "", value |-> v]
Threw(message) == [status |-> "threw", error |-> message, value |-> <<>>]

\* What the database may answer to a statement.
DbErrors == {"db: connection lost", "db: statement rejected"}
Rows(rs)    == [ok |-> TRUE, rows |-> rs, error |-> ""]
Rejects(e)  == [ok |-> FALSE, rows |-> <<>>, error |-> e]
Failures    == {Rejects(e) : e \in DbErrors}

NoOptions == [select |-> <<>>, limit |-> 0,
              orderBy |-> [defined |-> FALSE, entries |-> <<>>],
              relations |-> <<>>]
NoInstance == [cls |-> "undefined", props |-> <<>>]
NoRepo   == [EntityClass |-> "undefined", table |-> <<>>, relations |-> <<>>]
NoFrame  == [op |-> "none", repo |-> NoRepo, criteria |-> <<>>, updates |-> <<>>,
             options |-> NoOptions, entity |-> NoInstance, rows |-> <<>>, i |-> 0,
             table |-> <<>>, args |-> <<>>]

----------------------------------------------------------------------------
(* Repository (the caching variant, save.ts 83-287)                        *)

\* new Repository(EntityClass)
Repository(EntityClass) ==
    [EntityClass |-> EntityClass,
     table |-> getEntity(EntityClass).tableName,
     relations |-> getRelations(EntityClass)]

\* keys.map((k, i) => `${k} = $${i + 1}`).join(' AND ')
buildWhere(criteria) ==
    LET keys == Keys(criteria)
    IN  [clause |-> join([i \in 1..Len(keys) |-> <<Id(keys[i]), Kw("="), Ph(i)>>],
                         <<Kw("AND")>>),
         values |-> Values(criteria)]

\* setKeys.map((k, i) => `${k} = $${i + 1}`).join(', ')
buildSetClause(updates) ==
    LET setKeys == Keys(updates)
    IN  join([i \in 1..Len(setKeys) |-> <<Id(setKeys[i]), Kw("="), Ph(i)>>],
             <<Kw(",")>>)

\* Object.keys(obj).join(',')
joinKeys(obj) == join([i \in 1..Len(obj) |-> <<Id(obj[i].k)>>], <<Kw(",")>>)

buildSelectClause(select) ==
    IF Len(select) > 0
    THEN join([i \in 1..Len(select) |-> <<Id(select[i])>>], <<Kw(",")>>)
    ELSE <<Kw("*")>>

buildOrderClause(orderBy) ==
    IF ~orderBy.defined THEN <<>>
    ELSE <<Kw("ORDER BY")>>
         \o join([i \in 1..Len(orderBy.entries) |->
                    <<Id(orderBy.entries[i].k), Kw(orderBy.entries[i].v)>>],
                 <<Kw(",")>>)

buildLimitClause(limit) == IF limit # 0 THEN <<Kw("LIMIT"), Lit(limit)>> ELSE <<>>

\* A test that finds no entry whatever the cache holds.
builderRunsAlways(cache, key) == TRUE

\* !Repository.sqlCache.has(key): the builder is called.
builderRuns(cache, key) == key \notin DOMAIN cache

\* getOrCacheSQL: the cache after the call; the text returned is its entry.
getOrCacheSQL(cache, key, built) ==
    IF ~builderRuns(cache, key) THEN cache
    ELSE [k \in DOMAIN cache \cup {key} |-> IF k = key THEN built ELSE cache[k]]

updateKey(table, criteria, updates) ==
    <<Id(table), Kw("-update-")>> \o joinKeys(updates) \o <<Kw("-")>> \o joinKeys(criteria)

updateSQL(table, criteria, updates) ==
    <<Kw("UPDATE"), Id(table), Kw("SET")>> \o buildSetClause(updates)
        \o <<Kw("WHERE")>> \o buildWhere(criteria).clause

deleteKey(table, criteria) == <<Id(table), Kw("-delete-")>> \o joinKeys(criteria)

deleteSQL(table, criteria) ==
    <<Kw("DELETE FROM"), Id(table), Kw("WHERE")>> \o buildWhere(criteria).clause

\* A key that also spells out the criteria values.
findOneKeyWithValues(table, criteria) ==
    <<Id(table), Kw("-findOne-")>> \o joinKeys(criteria) \o <<Kw("-")>>
        \o [i \in 1..Len(criteria) |-> Lit(criteria[i].v.n)]

findOneKey(table, criteria) == <<Id(table), Kw("-findOne-")>> \o joinKeys(criteria)

findOneSQL(table, criteria, options) ==
    <<Kw("SELECT")>> \o buildSelectClause(options.select) \o <<Kw("FROM"), Id(table)>>
        \o <<Kw("WHERE")>> \o buildWhere(criteria).clause \o <<Kw("LIMIT"), Lit(1)>>

findAllKey(table, options) ==
    <<Id(table), Kw("-findAll-")>> \o buildSelectClause(options.select) \o <<Kw("-")>>
        \o buildOrderClause(options.orderBy) \o <<Kw("-")>>
        \o buildLimitClause(options.limit)

findAllSQL(table, options) ==
    <<Kw("SELECT")>> \o buildSelectClause(options.select) \o <<Kw("FROM"), Id(table)>>
        \o buildOrderClause(options.orderBy) \o buildLimitClause(options.limit)

----------------------------------------------------------------------------
(* The database behind pool.query                                          *)

TableRows(t) == IF t \in DOMAIN store THEN store[t] ELSE <<>>

\* The columns a SELECT list keeps of a row.
Project(row, select) ==
    IF Len(select) = 0 THEN row
    ELSE [f \in {select[i] : i \in 1..Len(select)} \cap DOMAIN row |-> row[f]]

ProjectAll(rows, select) == [i \in 1..Len(rows) |-> Project(rows[i], select)]

Limit(rows, limit) ==
    IF limit # 0 /\ limit < Len(rows) THEN SubSeq(rows, 1, limit) ELSE rows

\* SELECT * FROM t WHERE id IN (ids)
RowsWithIdIn(t, ids) ==
    SelectSeq(TableRows(t),
              LAMBDA row : \E i \in 1..Len(ids) : Get(row, s_id) = ids[i])

\* The answers the database may give to the statement being awaited.
DbAnswers ==
    Failures \cup
    CASE pc = "findAll" ->
            {Rows(Limit(ProjectAll(TableRows(frame.repo.table), frame.options.select),
                        frame.options.limit))}
      [] pc = "findOne" ->
            {Rows(<<>>)} \cup
            {Rows(<<Project(TableRows(frame.repo.table)[i], frame.options.select)>>) :
                i \in 1..Len(TableRows(frame.repo.table))}
      [] pc = "loadRelations" ->
            {Rows(RowsWithIdIn(frame.table, pending.values))}
      [] OTHER -> {Rows(<<>>)}

----------------------------------------------------------------------------
(* Repository.loadRelations                                                *)

\* [...new Set(xs)]: the distinct elements, each at its first occurrence.
RECURSIVE Distinct(_)
Distinct(xs) ==
    IF Len(xs) = 0 THEN <<>>
    ELSE LET init == Distinct(SubSeq(xs, 1, Len(xs) - 1))
             last == xs[Len(xs)]
         IN  IF \E i \in 1..Len(init) : init[i] = last THEN init
             ELSE Append(init, last)

includes(xs, x) == \E i \in 1..Len(xs) : xs[i] = x

foreignKey(rel) == rel.propertyName \o s__id

\* [...new Set(rows.map(row => row[foreignKey]).filter(Boolean))]
relationIds(rows, rel) ==
    Distinct(SelectSeq([i \in 1..Len(rows) |-> Get(rows[i], foreignKey(rel))], Truthy))

\* The loop body reaches pool.query for this relation (no `continue` before).
queriesRelation(repo, rows, requested, i) ==
    LET rel == repo.relations[i]
    IN  /\ includes(requested, rel.propertyName)
        /\ getEntity(rel.relatedEntity) # NoEntity
        /\ Len(relationIds(rows, rel)) > 0

\* The first relation at or after i for which the loop issues a query
\* (Len + 1: the loop ends without one).
RECURSIVE nextLookup(_, _, _, _)
nextLookup(repo, rows, requested, i) ==
    IF i > Len(repo.relations) THEN i
    ELSE IF queriesRelation(repo, rows, requested, i) THEN i
    ELSE nextLookup(repo, rows, requested, i + 1)

lookupSQL(tableName, ids) ==
    <<Kw("SELECT * FROM"), Id(tableName), Kw("WHERE id IN (")>>
        \o join([i \in 1..Len(ids) |-> <<Ph(i)>>], <<Kw(",")>>) \o <<Kw(")")>>

\* A related row attached to a source row is a reference to the row of the
\* related table (its position there).
Object(t, row) ==
    [t |-> "object", n |-> CHOOSE j \in 1..Len(TableRows(t)) : TableRows(t)[j] = row]

\* new Map(res.rows.map(row => [row.id, row])).get(key) ?? null
\* (a later row with the same id replaces an earlier one)
mapGet(t, resRows, key) ==
    LET hits == SelectSeq(resRows, LAMBDA row : Get(row, s_id) = key)
    IN  IF Len(hits) = 0 THEN Null ELSE Object(t, hits[Len(hits)])

\* for (const row of rows) row[rel.propertyName] = map.get(row[foreignKey]) ?? null
attach(rows, rel, t, resRows) ==
    [i \in 1..Len(rows) |->
        [f \in DOMAIN rows[i] \cup {rel.propertyName} |->
            IF f = rel.propertyName
            THEN mapGet(t, resRows, Get(rows[i], foreignKey(rel)))
            ELSE rows[i][f]]]

\* Run the loop of loadRelations from relation i to its next await, or to
\* the end of the loop, where the caller returns `rows`; tr is the trace so far.
loadRelationsFrom(rows, i, tr) ==
    LET repo == frame.repo
        j    == nextLookup(repo, rows, frame.options.relations, i)
    IN  IF j > Len(repo.relations)
        THEN /\ pc' = "idle"
             /\ frame' = [frame EXCEPT !.rows = rows]
             /\ pending' = NoQuery
             /\ outcome' = Returned(rows)
             /\ trace' = tr
        ELSE LET rel  == repo.relations[j]
                 meta == getEntity(rel.relatedEntity)
                 ids  == relationIds(rows, rel)
                 q    == Query(<<>>, lookupSQL(meta.tableName, ids), ids)
             IN  /\ pc' = "loadRelations"
                 /\ frame' = [frame EXCEPT !.rows = rows, !.i = j,
                                           !.table = meta.tableName]
                 /\ pending' = q
                 /\ outcome' = outcome
                 /\ trace' = Append(tr, EvQuery("loadRelations", q))

\* The call ends by throwing.
throws(message) ==
    /\ pc' = "idle"
    /\ frame' = frame
    /\ pending' = NoQuery
    /\ outcome' = Threw(message)

----------------------------------------------------------------------------
(* synchronize: the statements                                             *)

\* `${col.propertyName} ${type} ${isPrimary}`.trim()
columnDef(col) ==
    <<Id(col.propertyName), Kw(IF col.generated THEN "SERIAL" ELSE "VARCHAR(255)")>>
        \o (IF col.primary THEN <<Kw("PRIMARY KEY")>> ELSE <<>>)

\* The table a foreign key refers to: rel.relatedEntity().name.toLowerCase()
refTable(rel) == toLowerCase(ClassName(rel.relatedEntity))

\* The two definitions pushed for a ManyToOne or OneToOne relation.
relationDefs(rel) ==
    IF rel.relationType \in {"ManyToOne", "OneToOne"}
    THEN << <<Id(foreignKey(rel)), Kw("INTEGER")>>,
            <<Kw("FOREIGN KEY ("), Id(foreignKey(rel)), Kw(") REFERENCES"),
              Id(refTable(rel)), Kw("(id)")>> >>
    ELSE <<>>

RECURSIVE allRelationDefs(_)
allRelationDefs(rels) ==
    IF Len(rels) = 0 THEN <<>>
    ELSE relationDefs(rels[1]) \o allRelationDefs(Tail(rels))

columnDefs(cols, rels) ==
    [i \in 1..Len(cols) |-> columnDef(cols[i])] \o allRelationDefs(rels)

createTableSQL(tableName, cols, rels) ==
    <<Kw("CREATE TABLE IF NOT EXISTS"), Id(tableName), Kw("(")>>
        \o join(columnDefs(cols, rels), <<Kw(",")>>) \o <<Kw(");")>>

\* The two names joined in declaration order, without the sort.
joinTableNameUnsorted(entityA, entityB) ==
    join(<<toLowerCase(ClassName(entityA)), toLowerCase(ClassName(entityB))>>, s__)

\* [entityAName, entityBName].sort().join('_')
joinTableName(entityA, entityB) ==
    join(sort(<<toLowerCase(ClassName(entityA)), toLowerCase(ClassName(entityB))>>), s__)

createJoinTableSQL(rel) ==
    LET entityAName == toLowerCase(ClassName(rel.target))
        entityBName == toLowerCase(ClassName(rel.relatedEntity))
        colA == entityAName \o s__id
        colB == entityBName \o s__id
    IN  <<Kw("CREATE TABLE IF NOT EXISTS"), Id(joinTableName(rel.target, rel.relatedEntity)),
          Kw("("), Id(colA), Kw("INTEGER NOT NULL,"), Id(colB), Kw("INTEGER NOT NULL,"),
          Kw("PRIMARY KEY ("), Id(colA), Kw(","), Id(colB), Kw("),"),
          Kw("FOREIGN KEY ("), Id(colA), Kw(") REFERENCES"), Id(entityAName), Kw("(id),"),
          Kw("FOREIGN KEY ("), Id(colB), Kw(") REFERENCES"), Id(entityBName), Kw("(id)"),
          Kw(");")>>

\* The column names of the table synchronize creates for an entity class.
tableFields(reg, target) ==
    LET defs == columnDefs(SelectSeq(reg.columns, LAMBDA c : c.target = target),
                           SelectSeq(reg.relations, LAMBDA r : r.target = target))
    IN  {defs[i][1].v : i \in {j \in 1..Len(defs) : defs[j][1].k = "ident"}}

----------------------------------------------------------------------------
(* Repository operations                                                   *)

MaxCalls    == 2   \* repository calls in one run
MaxCriteria == 2   \* fields in a criteria or updates object

\* A constructor that leaves the lookup of the descriptor to the first use.
newRepositoryLazy(EntityClass) ==
    /\ pc = "idle"
    /\ frame' = [NoFrame EXCEPT !.op = "new Repository", !.repo = Repository(EntityClass)]
    /\ outcome' = Returned(<<>>)
    /\ repos' = repos \cup {Repository(EntityClass)}
    /\ trace' = <<>>
    /\ UNCHANGED <<regVars, pool, sqlCache, listeners, created, store, pc, pending, ncalls, pools>>

\* new Repository(EntityClass): throws when the class has no descriptor.
newRepository(EntityClass) ==
    /\ pc = "idle"
    /\ frame' = [NoFrame EXCEPT !.op = "new Repository", !.repo = Repository(EntityClass)]
    /\ IF getEntity(EntityClass) = NoEntity
       THEN /\ outcome' = Threw("Entity not registered: " \o EntityClass)
            /\ repos' = repos
       ELSE /\ outcome' = Returned(<<>>)
            /\ repos' = repos \cup {Repository(EntityClass)}
    /\ trace' = <<>>
    /\ UNCHANGED <<regVars, pool, sqlCache, listeners, created, store, pc, pending, ncalls, pools>>

\* The part of a repository call up to its first await: PoolFactory.getPool(),
\* the statement taken from (or put in) the cache, pool.query(...).
issue(op, repo, key, built, values, locals) ==
    /\ pc = "idle"
    /\ repo \in repos
    /\ ncalls < MaxCalls
    /\ ncalls' = ncalls + 1
    /\ IF pool # "ready"
       THEN /\ pc' = "idle"
            /\ frame' = locals
            /\ pending' = NoQuery
            /\ outcome' = Threw("Pool not initialized")
            /\ trace' = <<>>
            /\ sqlCache' = sqlCache
       ELSE LET cache == getOrCacheSQL(sqlCache, key, built)
                q     == Query(key, cache[key], values)
            IN  /\ sqlCache' = cache
                /\ pending' = q
                /\ trace' = (IF builderRuns(sqlCache, key) THEN <<EvBuild(key, built)>>
                              ELSE <<>>) \o <<EvQuery(op, q)>>
                /\ pc' = op
                /\ frame' = locals
                /\ outcome' = NoOutcome
    /\ UNCHANGED <<regVars, pool, listeners, repos, created, store, pools>>

findAll(repo, options) ==
    issue("findAll", repo, findAllKey(repo.table, options),
          findAllSQL(repo.table, options), <<>>,
          [NoFrame EXCEPT !.op = "findAll", !.repo = repo, !.options = options])

findOne(repo, criteria, options) ==
    issue("findOne", repo, findOneKey(repo.table, criteria),
          findOneSQL(repo.table, criteria, options), buildWhere(criteria).values,
          [NoFrame EXCEPT !.op = "findOne", !.repo = repo, !.criteria = criteria,
                          !.options = options])

delete(repo, criteria) ==
    issue("delete", repo, deleteKey(repo.table, criteria),
          deleteSQL(repo.table, criteria), buildWhere(criteria).values,
          [NoFrame EXCEPT !.op = "delete", !.repo = repo, !.criteria = criteria])

update(repo, criteria, updates) ==
    issue("update", repo, updateKey(repo.table, criteria, updates),
          updateSQL(repo.table, criteria, updates),
          Values(updates) \o buildWhere(criteria).values,
          [NoFrame EXCEPT !.op = "update", !.repo = repo, !.criteria = criteria,
                          !.updates = updates])

\* The awaited statement failed: the error propagates to the caller.
rejected(ans) ==
    /\ throws(ans.error)
    /\ trace' = Append(trace, EvSettled(ans.error))

\* findAll after `await pool.query`: the rows, hydrated when relations are asked.
findAll_resume ==
    /\ pc = "findAll"
    /\ \E ans \in DbAnswers :
          IF ~ans.ok THEN rejected(ans)
          ELSE IF Len(frame.options.relations) > 0
          THEN loadRelationsFrom(ans.rows, 1, Append(trace, EvSettled("ok")))
          ELSE /\ pc' = "idle"
               /\ frame' = [frame EXCEPT !.rows = ans.rows]
               /\ pending' = NoQuery
               /\ outcome' = Returned(ans.rows)
               /\ trace' = Append(trace, EvSettled("ok"))
    /\ UNCHANGED <<regVars, pool, sqlCache, listeners, repos, created, store, ncalls, pools>>

\* A findOne that hands res.rows[0] to loadRelations without testing it:
\* reading the foreign key of null is a TypeError.
findOne_resumeUnguarded ==
    /\ pc = "findOne"
    /\ \E ans \in DbAnswers :
          IF ~ans.ok THEN rejected(ans)
          ELSE IF Len(frame.options.relations) > 0
          THEN IF Len(ans.rows) > 0
               THEN loadRelationsFrom(<<ans.rows[1]>>, 1, Append(trace, EvSettled("ok")))
               ELSE /\ throws("TypeError: Cannot read properties of null")
                    /\ trace' = Append(trace, EvSettled("ok"))
          ELSE /\ pc' = "idle"
               /\ frame' = [frame EXCEPT !.rows = ans.rows]
               /\ pending' = NoQuery
               /\ outcome' = Returned(IF Len(ans.rows) > 0 THEN <<ans.rows[1]>> ELSE <<>>)
               /\ trace' = Append(trace, EvSettled("ok"))
    /\ UNCHANGED <<regVars, pool, sqlCache, listeners, repos, created, store, ncalls, pools>>

\* findOne after `await pool.query`: res.rows[0] ?? null.
findOne_resume ==
    /\ pc = "findOne"
    /\ \E ans \in DbAnswers :
          IF ~ans.ok THEN rejected(ans)
          ELSE IF Len(ans.rows) > 0 /\ Len(frame.options.relations) > 0
          THEN loadRelationsFrom(<<ans.rows[1]>>, 1, Append(trace, EvSettled("ok")))
          ELSE /\ pc' = "idle"
               /\ frame' = [frame EXCEPT !.rows = ans.rows]
               /\ pending' = NoQuery
               /\ outcome' = Returned(IF Len(ans.rows) > 0 THEN <<ans.rows[1]>> ELSE <<>>)
               /\ trace' = Append(trace, EvSettled("ok"))
    /\ UNCHANGED <<regVars, pool, sqlCache, listeners, repos, created, store, ncalls, pools>>

\* update and delete after `await pool.query`.
write_resume ==
    /\ pc \in {"update", "delete"}
    /\ \E ans \in DbAnswers :
          IF ~ans.ok THEN rejected(ans)
          ELSE /\ pc' = "idle"
               /\ frame' = frame
               /\ pending' = NoQuery
               /\ outcome' = Returned(<<>>)
               /\ trace' = Append(trace, EvSettled("ok"))
    /\ UNCHANGED <<regVars, pool, sqlCache, listeners, repos, created, store, ncalls, pools>>

\* loadRelations after `await pool.query`: attach, then go on with the loop.
loadRelations_resume ==
    /\ pc = "loadRelations"
    /\ \E ans \in DbAnswers :
          IF ~ans.ok THEN rejected(ans)
          ELSE loadRelationsFrom(
                  attach(frame.rows, frame.repo.relations[frame.i], frame.table, ans.rows),
                  frame.i + 1, Append(trace, EvSettled("ok")))
    /\ UNCHANGED <<regVars, pool, sqlCache, listeners, repos, created, store, ncalls, pools>>

----------------------------------------------------------------------------
(* Inputs                                                                  *)

\* Object literals over the given fields and values, at most maxLen entries.
Objects(fields, values, maxLen) ==
    {o \in UNION {[1..n -> [k : fields, v : values]] : n \in 0..maxLen} :
        \A i, j \in 1..Len(o) : i # j => o[i].k # o[j].k}

RepoFields     == {s_id, s_name}
CriteriaValues == {Number(1), Number(2)}
UpdateValues   == {String(1)}
Criterias      == Objects(RepoFields, CriteriaValues, MaxCriteria)
Updates        == Objects(RepoFields, UpdateValues, MaxCriteria)

Selects  == {<<>>, <<s_id>>}
OrderBys == {[defined |-> FALSE, entries |-> <<>>],
             [defined |-> TRUE, entries |-> <<[k |-> s_name, v |-> "DESC"]>>]}
Limits   == {0, 1}
FindOptions ==
    {[select |-> sel, limit |-> lim, orderBy |-> ord, relations |-> <<>>] :
        sel \in Selects, lim \in Limits, ord \in OrderBys}
SelectOptions == {o \in FindOptions : o.limit = 0 /\ ~o.orderBy.defined}

\* The entities of the README: User ('users') has many Post ('posts').
UserClass ==
    Class("User", TRUE, s_users,
          <<Member("PrimaryGeneratedColumn", s_id, "none"),
            Member("Column", s_name, "none"),
            Member("OneToMany", s_posts, "Post")>>)

PostClass ==
    Class("Post", TRUE, s_posts,
          <<Member("PrimaryGeneratedColumn", s_id, "none"),
            Member("Column", s_title, "none"),
            Member("ManyToOne", s_author, "User")>>)

ReadmeRegistry == LoadClasses(EmptyRegistry, <<UserClass, PostClass>>)

MaxRows == 3   \* rows of the table read by findAll

FkValues == {Null, Number(0), Number(1)}

\* A row of the table synchronize creates for Post: id, title, author_id.
PostRow(id, fk) ==
    [f \in tableFields(ReadmeRegistry, "Post") |->
        IF f = s_id THEN Number(id)
        ELSE IF f = s_author \o s__id THEN fk
        ELSE String(1)]

\* A row of the table synchronize creates for User: id, name.
UserRow(id, name) ==
    [f \in tableFields(ReadmeRegistry, "User") |->
        IF f = s_id THEN Number(id) ELSE String(name)]

PostTables ==
    UNION {{[i \in 1..n |-> PostRow(i, fks[i])] : fks \in [1..n -> FkValues]} :
              n \in 0..MaxRows}

UserTables == {<<>>, <<UserRow(0, 1)>>, <<UserRow(1, 1)>>, <<UserRow(0, 1), UserRow(1, 2)>>}

HydrateOptions ==
    {[NoOptions EXCEPT !.relations = rs] : rs \in {<<s_author>>, <<s_posts>>}}

FindCriterias == {c \in Criterias : Len(c) = 0 \/ (Len(c) = 1 /\ c[1].k = s_id)}

\* The criteria of delete calls and the objects of update calls.
WriteCriterias == {c \in Criterias : \A i \in 1..Len(c) : c[i].v = Number(1)}

InitRepo ==
    /\ entities = ReadmeRegistry.entities
    /\ columns = ReadmeRegistry.columns
    /\ relations = ReadmeRegistry.relations
    /\ pool \in {"unset", "ready"}
    /\ sqlCache = <<>>
    /\ listeners = [save |-> <<>>, synchronize |-> <<>>]
    /\ repos = {}
    /\ created = {s_users}
    /\ store = (s_users :> <<UserRow(1, 1), UserRow(2, 2)>>)
    /\ pc = "idle"
    /\ frame = NoFrame
    /\ pending = NoQuery
    /\ trace = <<>>
    /\ outcome = NoOutcome
    /\ ncalls = 0
    /\ pools = IF pool = "ready" THEN <<"connected">> ELSE <<>>

NextRepo ==
    \/ \E c \in {"User", "Role"} : newRepository(c)
    \/ \E r \in repos, o \in FindOptions : findAll(r, o)
    \/ \E r \in repos, c \in FindCriterias, o \in SelectOptions : findOne(r, c, o)
    \/ \E r \in repos, c \in WriteCriterias : delete(r, c)
    \/ \E r \in repos, c \in FindCriterias, u \in Updates : update(r, c, u)
    \/ findAll_resume
    \/ findOne_resume
    \/ write_resume

SpecRepo == InitRepo /\ [][NextRepo]_vars

----------------------------------------------------------------------------
(* Reading rows with their relations                                       *)

InitFind ==
    /\ entities = ReadmeRegistry.entities
    /\ columns = ReadmeRegistry.columns
    /\ relations = ReadmeRegistry.relations
    /\ pool = "ready"
    /\ sqlCache = <<>>
    /\ listeners = [save |-> <<>>, synchronize |-> <<>>]
    /\ repos = {Repository("User"), Repository("Post")}
    /\ created = {s_users, s_posts}
    /\ \E us \in UserTables, ps \in PostTables :
          store = (s_users :> us) @@ (s_posts :> ps)
    /\ pc = "idle"
    /\ frame = NoFrame
    /\ pending = NoQuery
    /\ trace = <<>>
    /\ outcome = NoOutcome
    /\ ncalls = MaxCalls - 1   \* each run reads once: hydration is per call
    /\ pools = IF pool = "ready" THEN <<"connected">> ELSE <<>>

NextFind ==
    \/ \E r \in repos, o \in HydrateOptions : findAll(r, o)
    \/ \E r \in repos, c \in FindCriterias, o \in HydrateOptions : findOne(r, c, o)
    \/ findAll_resume
    \/ findOne_resume
    \/ loadRelations_resume

SpecFind == InitFind /\ [][NextFind]_vars

----------------------------------------------------------------------------
(* EventEmitter (globalEvents)                                             *)

MaxListeners == 1   \* listeners subscribed to one event

\* A listener is what it does when called: it "returns" or it "throws".
ListenerKinds == {"returns", "throws"}

\* on(evt, fn)
on(evt, fn) ==
    /\ Len(listeners[evt]) < MaxListeners
    /\ listeners' = [listeners EXCEPT ![evt] = Append(@, fn)]
    /\ UNCHANGED <<regVars, pool, sqlCache, repos, created, store, pc, frame, pending,
                   trace, outcome, ncalls, pools>>

\* emit(evt, ...args) throws when one of the listeners throws: forEach stops
\* there and the exception leaves emit.
emitThrows(evt) == \E i \in 1..Len(listeners[evt]) : listeners[evt][i] = "throws"

ListenerError == "listener error"

----------------------------------------------------------------------------
(* synchronize                                                             *)

\* A loop that has no `continue` for an entity without columns.
nextEntityNoSkip(i) == i

\* The first entity at or after i that has columns (Len + 1: none).
RECURSIVE nextEntity(_)
nextEntity(i) ==
    IF i > Len(getEntities) THEN i
    ELSE IF Len(getColumns(getEntities[i].target)) > 0 THEN i
    ELSE nextEntity(i + 1)

\* console.warn for each entity without columns from i up to (not including) j.
warnings(i, j) ==
    [k \in 1..(j - i) |-> EvLog("warn", getEntities[i + k - 1].tableName)]

\* The first ManyToMany relation at or after j (Len + 1: none).
RECURSIVE nextJoin(_)
nextJoin(j) ==
    IF j > Len(relations) THEN j
    ELSE IF relations[j].relationType = "ManyToMany" THEN j
    ELSE nextJoin(j + 1)

\* The statement of a synchronize run is awaited.
awaitCreate(site, i, table, sql, tr) ==
    /\ pc' = site
    /\ frame' = [NoFrame EXCEPT !.op = "synchronize", !.i = i, !.table = table]
    /\ pending' = Query(<<>>, sql, <<>>)
    /\ outcome' = NoOutcome
    /\ trace' = Append(tr, EvQuery(site, Query(<<>>, sql, <<>>)))

\* The second loop, from relation j to its next await or to the return.
syncJoins(j, tr) ==
    LET k == nextJoin(j)
    IN  IF k <= Len(relations)
        THEN awaitCreate("synchronize:join", k,
                         joinTableName(relations[k].target, relations[k].relatedEntity),
                         createJoinTableSQL(relations[k]), tr)
        ELSE /\ pc' = "idle"
             /\ frame' = [NoFrame EXCEPT !.op = "synchronize"]
             /\ pending' = NoQuery
             /\ outcome' = Returned(<<>>)
             /\ trace' = tr

\* The first loop, from entity i to its next await; then the second loop.
syncEntities(i, tr) ==
    LET j   == nextEntity(i)
        tr2 == tr \o warnings(i, j)
    IN  IF j <= Len(getEntities)
        THEN awaitCreate("synchronize:entity", j, getEntities[j].tableName,
                         createTableSQL(getEntities[j].tableName,
                                        getColumns(getEntities[j].target),
                                        getRelations(getEntities[j].target)),
                         tr2)
        ELSE syncJoins(1, tr2)

\* A synchronize that does not ask PoolFactory for the pool before its loops.
synchronizeWithoutGetPool ==
    /\ pc = "idle"
    /\ syncEntities(1, <<>>)
    /\ UNCHANGED <<regVars, pool, sqlCache, listeners, repos, created, store, ncalls, pools>>

\* synchronize() up to its first await.
synchronize ==
    /\ pc = "idle"
    /\ IF pool # "ready"
       THEN /\ pc' = "idle"
            /\ frame' = [NoFrame EXCEPT !.op = "synchronize"]
            /\ pending' = NoQuery
            /\ outcome' = Threw("Pool not initialized")
            /\ trace' = <<>>
       ELSE syncEntities(1, <<>>)
    /\ UNCHANGED <<regVars, pool, sqlCache, listeners, repos, created, store, ncalls, pools>>

\* A catch block that logs and goes on with the next iteration.
createFailedSwallowed(err, tr) ==
    IF pc = "synchronize:entity"
    THEN syncEntities(frame.i + 1, Append(tr, EvLog("error", frame.table)))
    ELSE syncJoins(frame.i + 1, Append(tr, EvLog("error", frame.table)))

\* catch (err) { console.error(...); throw err; }
createFailed(err, tr) ==
    /\ throws(err)
    /\ trace' = Append(tr, EvLog("error", frame.table))

\* After `await pool.query(sql)` of an entity table: on success the table
\* exists and 'synchronize' is emitted (a throwing listener ends in the catch).
sync_entity_resume ==
    /\ pc = "synchronize:entity"
    /\ \E ans \in DbAnswers :
          IF ans.ok
          THEN /\ created' = created \cup {frame.table}
               /\ LET tr == trace \o <<EvSettled("ok"), EvEmitTable(frame.table)>>
                  IN  IF emitThrows("synchronize") THEN createFailed(ListenerError, tr)
                      ELSE syncEntities(frame.i + 1, tr)
          ELSE /\ created' = created
               /\ createFailed(ans.error, Append(trace, EvSettled(ans.error)))
    /\ UNCHANGED <<regVars, pool, sqlCache, listeners, repos, store, ncalls, pools>>

\* A second loop that creates the join table without notifying.
sync_join_resumeSilent ==
    /\ pc = "synchronize:join"
    /\ \E ans \in DbAnswers :
          IF ans.ok
          THEN /\ created' = created \cup {frame.table}
               /\ syncJoins(frame.i + 1, Append(trace, EvSettled("ok")))
          ELSE /\ created' = created
               /\ createFailed(ans.error, Append(trace, EvSettled(ans.error)))
    /\ UNCHANGED <<regVars, pool, sqlCache, listeners, repos, store, ncalls, pools>>

\* After `await pool.query(sql)` of a join table.
sync_join_resume ==
    /\ pc = "synchronize:join"
    /\ \E ans \in DbAnswers :
          IF ans.ok
          THEN /\ created' = created \cup {frame.table}
               /\ LET tr == trace \o <<EvSettled("ok"), EvEmitTable(frame.table)>>
                  IN  IF emitThrows("synchronize") THEN createFailed(ListenerError, tr)
                      ELSE syncJoins(frame.i + 1, tr)
          ELSE /\ created' = created
               /\ createFailed(ans.error, Append(trace, EvSettled(ans.error)))
    /\ UNCHANGED <<regVars, pool, sqlCache, listeners, repos, store, ncalls, pools>>

\* Entity classes of the synchronize runs.
RoleClass ==
    Class("Role", TRUE, <<>>,
          <<Member("PrimaryGeneratedColumn", s_id, "none"),
            Member("Column", s_name, "none")>>)

RoleWithUsers ==
    Class("Role", TRUE, <<>>,
          <<Member("PrimaryGeneratedColumn", s_id, "none"),
            Member("ManyToMany", s_users, "User")>>)

RoleNoColumns == Class("Role", TRUE, <<>>, <<>>)

UserWithRoles ==
    Class("User", TRUE, <<>>,
          <<Member("PrimaryGeneratedColumn", s_id, "none"),
            Member("Column", s_name, "none"),
            Member("ManyToMany", s_roles, "Role")>>)

PostWithReaders ==
    Class("Post", TRUE, s_posts,
          <<Member("PrimaryGeneratedColumn", s_id, "none"),
            Member("ManyToOne", s_author, "User"),
            Member("ManyToMany", s_users, "User")>>)

ClassVariants ==
    {UserClass, UserWithRoles, RoleClass, RoleWithUsers, RoleNoColumns, PostClass,
     PostWithReaders}

\* The programs: up to three class definitions, of different classes, in any order.
Programs ==
    {p \in UNION {[1..n -> ClassVariants] : n \in 1..3} :
        \A i, j \in 1..Len(p) : i # j => p[i].cls # p[j].cls}

InitSync ==
    /\ \E p \in Programs :
          /\ entities = LoadClasses(EmptyRegistry, p).entities
          /\ columns = LoadClasses(EmptyRegistry, p).columns
          /\ relations = LoadClasses(EmptyRegistry, p).relations
    /\ pool \in {"unset", "ready"}
    /\ sqlCache = <<>>
    /\ listeners = [save |-> <<>>, synchronize |-> <<>>]
    /\ repos = {}
    /\ created = {}
    /\ store = <<>>
    /\ pc = "idle"
    /\ frame = NoFrame
    /\ pending = NoQuery
    /\ trace = <<>>
    /\ outcome = NoOutcome
    /\ ncalls = 0
    /\ pools = IF pool = "ready" THEN <<"connected">> ELSE <<>>

NextSync ==
    \/ \E fn \in ListenerKinds : on("synchronize", fn)
    \/ synchronize
    \/ sync_entity_resume
    \/ sync_join_resume

SpecSync == InitSync /\ [][NextSync]_vars

----------------------------------------------------------------------------
(* save(entity)                                                            *)

\* An entity instance: its constructor and its own properties (a property
\* may be missing, or hold undefined).

\* A check of the entity descriptor alone.
metadataMissingEntityOnly(entityMeta, cols) == entityMeta = NoEntity

\* !entityMeta || columns.length === 0
metadataMissing(entityMeta, cols) == entityMeta = NoEntity \/ Len(cols) = 0

\* The filter of an earlier revision of save: every registered column.
allColumns(entity, cols) == cols

\* columns.filter(col => !(col.generated && entity[col.propertyName] === undefined))
insertableColumns(entity, cols) ==
    SelectSeq(cols, LAMBDA col :
        ~(col.generated /\ Get(entity.props, col.propertyName) = Undefined))

\* `INSERT INTO ${table} (${columnNames.join(', ')}) VALUES (${placeholders})`
insertSQL(table, columnNames) ==
    <<Kw("INSERT INTO"), Id(table), Kw("(")>>
        \o join([i \in 1..Len(columnNames) |-> <<Id(columnNames[i])>>], <<Kw(", ")>>)
        \o <<Kw(") VALUES (")>>
        \o join([i \in 1..Len(columnNames) |-> <<Ph(i)>>], <<Kw(", ")>>)
        \o <<Kw(")")>>

\* The statement save hands to pool.query and its bound values.
insertQuery(entity) ==
    LET cols        == insertableColumns(entity, getColumns(entity.cls))
        columnNames == [i \in 1..Len(cols) |-> cols[i].propertyName]
        values      == [i \in 1..Len(columnNames) |-> Get(entity.props, columnNames[i])]
    IN  Query(<<>>, insertSQL(getEntity(entity.cls).tableName, columnNames), values)

\* save(entity) up to its await: the metadata check throws before the try
\* block; getPool() throws inside it.
save(entity) ==
    /\ pc = "idle"
    /\ frame' = [NoFrame EXCEPT !.op = "save", !.entity = entity,
                                !.table = getEntity(entity.cls).tableName]
    /\ IF metadataMissing(getEntity(entity.cls), getColumns(entity.cls))
       THEN /\ pc' = "idle"
            /\ pending' = NoQuery
            /\ outcome' = Threw("Entity metadata not found for " \o entity.cls)
            /\ trace' = <<>>
       ELSE IF pool # "ready"
       THEN /\ pc' = "idle"
            /\ pending' = NoQuery
            /\ outcome' = Threw("Pool not initialized")
            /\ trace' = <<EvLog("error", getEntity(entity.cls).tableName)>>
       ELSE /\ pc' = "save"
            /\ pending' = insertQuery(entity)
            /\ outcome' = NoOutcome
            /\ trace' = <<EvQuery("save", insertQuery(entity))>>
    /\ UNCHANGED <<regVars, pool, sqlCache, listeners, repos, created, store, ncalls, pools>>

\* A catch block that issues the statement once more before giving up.
saveFailedRetry(err, tr) ==
    /\ pc' = "idle"
    /\ frame' = frame
    /\ pending' = NoQuery
    /\ outcome' = Threw(err)
    /\ trace' = tr \o <<EvQuery("save", pending), EvSettled(err),
                        EvLog("error", frame.table)>>

\* catch (error) { console.error(...); throw error; }
saveFailed(err, tr) ==
    /\ throws(err)
    /\ trace' = Append(tr, EvLog("error", frame.table))

\* After `await pool.query(sql, values)`: on success 'save' is emitted with the
\* entity (a throwing listener ends in the catch) and save returns.
save_resume ==
    /\ pc = "save"
    /\ \E ans \in DbAnswers :
          IF ans.ok
          THEN LET tr == trace \o <<EvSettled("ok"), EvEmitEntity(frame.entity)>>
               IN  IF emitThrows("save") THEN saveFailed(ListenerError, tr)
                   ELSE /\ pc' = "idle"
                        /\ frame' = frame
                        /\ pending' = NoQuery
                        /\ outcome' = Returned(<<>>)
                        /\ trace' = tr
          ELSE saveFailed(ans.error, Append(trace, EvSettled(ans.error)))
    /\ UNCHANGED <<regVars, pool, sqlCache, listeners, repos, created, store, ncalls, pools>>

\* Classes of the save runs: Tag has only a generated column, Draft is not
\* decorated with @Entity, Role has no columns.
TagClass ==
    Class("Tag", TRUE, <<>>, <<Member("PrimaryGeneratedColumn", s_id, "none")>>)

DraftClass ==
    Class("Draft", FALSE, <<>>,
          <<Member("PrimaryColumn", s_id, "none"),
            Member("Column", s_title, "none")>>)

SaveRegistry ==
    LoadClasses(EmptyRegistry, <<UserClass, PostClass, RoleNoColumns, TagClass, DraftClass>>)

\* The instances handed to save: any class of the program or a plain object,
\* each declared property missing or holding one of the values.
SaveValues == {Undefined, Null, Number(1), String(1)}
SaveFields(cls) ==
    CASE cls = "User" -> {s_id, s_name}
      [] cls = "Post" -> {s_id, s_title}
      [] cls = "Draft" -> {s_id, s_title}
      [] cls = "Tag" -> {s_id}
      [] OTHER -> {s_name}
Instances ==
    UNION {{[cls |-> cls, props |-> ps] :
               ps \in UNION {[S -> SaveValues] : S \in SUBSET SaveFields(cls)}} :
           cls \in {"User", "Post", "Role", "Tag", "Draft", "Object"}}

InitSave ==
    /\ entities = SaveRegistry.entities
    /\ columns = SaveRegistry.columns
    /\ relations = SaveRegistry.relations
    /\ pool \in {"unset", "ready"}
    /\ sqlCache = <<>>
    /\ listeners = [save |-> <<>>, synchronize |-> <<>>]
    /\ repos = {}
    /\ created = {}
    /\ store = <<>>
    /\ pc = "idle"
    /\ frame = NoFrame
    /\ pending = NoQuery
    /\ trace = <<>>
    /\ outcome = NoOutcome
    /\ ncalls = 0
    /\ pools = IF pool = "ready" THEN <<"connected">> ELSE <<>>

NextSave ==
    \/ \E fn \in ListenerKinds : on("save", fn)
    \/ \E entity \in Instances : save(entity)
    \/ save_resume

SpecSave == InitSave /\ [][NextSave]_vars

----------------------------------------------------------------------------
(* EntityRegistry.addEntities and FastOrmModule.forFeature                 *)

\* A check that never finds the entity.
alreadyExistsNever(reg, entity) == FALSE

\* storage.getEntities().some(e => e.target === entity)
alreadyExists(reg, entity) ==
    \E i \in 1..Len(reg.entities) : reg.entities[i].target = entity

\* The loop of addEntities over the classes it is handed.
RECURSIVE addEntitiesTo(_, _)
addEntitiesTo(reg, ents) ==
    IF Len(ents) = 0 THEN reg
    ELSE addEntitiesTo(
            IF ~alreadyExists(reg, ents[1])
            THEN addEntity(reg, [target |-> ents[1],
                                 tableName |-> toLowerCase(ClassName(ents[1]))])
            ELSE reg,
            Tail(ents))

\* EntityRegistry.addEntities(entities)
addEntities(ents) ==
    /\ pc = "idle"
    /\ ncalls < MaxCalls
    /\ ncalls' = ncalls + 1
    /\ LET reg == addEntitiesTo([entities |-> entities, columns |-> columns,
                                 relations |-> relations], ents)
       IN  /\ entities' = reg.entities
           /\ columns' = reg.columns
           /\ relations' = reg.relations
    /\ frame' = [NoFrame EXCEPT !.op = "addEntities", !.args = ents]
    /\ outcome' = Returned(<<>>)
    /\ trace' = <<>>
    /\ UNCHANGED <<pool, sqlCache, listeners, repos, created, store, pc, pending, pools>>

\* FastOrmModule.forFeature(entities)
forFeature(ents) == addEntities(ents)

\* The classes a program defines: those a decorator has registered something for.
definedClasses ==
    {entities[i].target : i \in 1..Len(entities)}
        \cup {columns[i].target : i \in 1..Len(columns)}

\* The lists handed to forFeature: one or two defined classes (the same class
\* may be named twice).
EntityLists == UNION {[1..n -> definedClasses] : n \in 1..2}

\* Programs of the registry runs: User is @Entity('users'), Role is @Entity(),
\* Draft is not decorated with @Entity.
RegistryPrograms ==
    {p \in UNION {[1..n -> {UserClass, RoleClass, DraftClass}] : n \in 1..3} :
        \A i, j \in 1..Len(p) : i # j => p[i].cls # p[j].cls}

InitRegistry ==
    /\ \E p \in RegistryPrograms :
          /\ entities = LoadClasses(EmptyRegistry, p).entities
          /\ columns = LoadClasses(EmptyRegistry, p).columns
          /\ relations = LoadClasses(EmptyRegistry, p).relations
    /\ pool = "unset"
    /\ sqlCache = <<>>
    /\ listeners = [save |-> <<>>, synchronize |-> <<>>]
    /\ repos = {}
    /\ created = {}
    /\ store = <<>>
    /\ pc = "idle"
    /\ frame = NoFrame
    /\ pending = NoQuery
    /\ trace = <<>>
    /\ outcome = NoOutcome
    /\ ncalls = 0
    /\ pools = IF pool = "ready" THEN <<"connected">> ELSE <<>>

NextRegistry == \E ents \in EntityLists : forFeature(ents)

SpecRegistry == InitRegistry /\ [][NextRegistry]_vars

----------------------------------------------------------------------------
(* PoolFactory: pool is "unset" (no config, no pool), "configured" (config *)
(* set, no pool) or "ready" (the pool object exists). Each Pool object     *)
(* constructed is an element of pools: "connecting" while the create()     *)
(* call that constructed it awaits connect(), then "connected" or "failed" *)

\* setPoolOptions(cfg): PoolFactory.setConfig(cfg)
setPoolOptions ==
    /\ pc = "idle"
    /\ pool' = IF pool = "unset" THEN "configured" ELSE pool
    /\ frame' = [NoFrame EXCEPT !.op = "setPoolOptions"]
    /\ outcome' = Returned(<<>>)
    /\ trace' = <<>>
    /\ UNCHANGED <<regVars, sqlCache, listeners, repos, created, store, pc, pending,
                   ncalls, pools>>

\* PoolFactory.create() up to its await: with a pool it returns it; without
\* one it needs the config, assigns the new Pool and awaits connect().
create ==
    /\ pc = "idle"
    /\ ncalls < MaxCalls
    /\ ncalls' = ncalls + 1
    /\ frame' = [NoFrame EXCEPT !.op = "create"]
    /\ trace' = <<>>
    /\ CASE pool = "unset" ->
              /\ pool' = pool
              /\ pools' = pools
              /\ outcome' = Threw("Pool config not set.")
         [] pool = "configured" ->
              /\ pool' = "ready"
              /\ pools' = Append(pools, "connecting")
              /\ outcome' = NoOutcome
         [] OTHER ->
              /\ pool' = pool
              /\ pools' = pools
              /\ outcome' = Returned(<<>>)
    /\ UNCHANGED <<regVars, sqlCache, listeners, repos, created, store, pc, pending>>

\* After `await this.pool.connect()` of the create() call that constructed
\* the i-th Pool: it returns the pool, or the rejection ends it.
create_resume(i) ==
    /\ pc = "idle"
    /\ pools[i] = "connecting"
    /\ frame' = [NoFrame EXCEPT !.op = "create"]
    /\ trace' = <<>>
    /\ \E r \in {"ok"} \cup DbErrors :
          /\ pools' = [pools EXCEPT ![i] = IF r = "ok" THEN "connected" ELSE "failed"]
          /\ outcome' = IF r = "ok" THEN Returned(<<>>) ELSE Threw(r)
    /\ UNCHANGED <<regVars, pool, sqlCache, listeners, repos, created, store, pc, pending,
                   ncalls>>

\* PoolFactory.getPool()
getPool ==
    /\ pc = "idle"
    /\ frame' = [NoFrame EXCEPT !.op = "getPool"]
    /\ trace' = <<>>
    /\ outcome' = IF pool # "ready" THEN Threw("Pool not initialized")
                  ELSE Returned(<<>>)
    /\ UNCHANGED <<regVars, pool, sqlCache, listeners, repos, created, store, pc, pending,
                   ncalls, pools>>

\* initDb(): PoolFactory.create(). Without a pool it needs the config; the
\* pool object is assigned before connect() is awaited, so it stays assigned
\* when connect() rejects.
initDb ==
    /\ pc = "idle"
    /\ frame' = [NoFrame EXCEPT !.op = "initDb"]
    /\ trace' = <<>>
    /\ CASE pool = "unset" ->
              /\ pool' = pool
              /\ outcome' = Threw("Pool config not set.")
              /\ pools' = pools
         [] pool = "configured" ->
              /\ pool' = "ready"
              /\ \E r \in {"ok"} \cup DbErrors :
                    /\ outcome' = IF r = "ok" THEN Returned(<<>>) ELSE Threw(r)
                    /\ pools' = Append(pools, IF r = "ok" THEN "connected" ELSE "failed")
         [] OTHER ->
              /\ pool' = pool
              /\ outcome' = Returned(<<>>)
              /\ pools' = pools
    /\ UNCHANGED <<regVars, sqlCache, listeners, repos, created, store, pc, pending,
                   ncalls>>

\* The program of the pool runs and the calls made in them.
PoolRegistry == LoadClasses(EmptyRegistry, <<UserWithRoles, RoleClass, DraftClass>>)

PoolInstances ==
    {[cls |-> "User", props |-> (s_name :> String(1))],
     [cls |-> "Draft", props |-> (s_id :> Number(1))]}

PoolCriterias == {c \in Criterias : Len(c) = 1 /\ c[1] = [k |-> s_id, v |-> Number(1)]}
PoolUpdates   == {u \in Updates : Len(u) = 1 /\ u[1].k = s_name}

InitPool ==
    /\ entities = PoolRegistry.entities
    /\ columns = PoolRegistry.columns
    /\ relations = PoolRegistry.relations
    /\ pool = "unset"
    /\ sqlCache = <<>>
    /\ listeners = [save |-> <<>>, synchronize |-> <<>>]
    /\ repos = {[EntityClass |-> "User", table |-> s_users,
                 relations |-> SelectSeq(PoolRegistry.relations,
                                         LAMBDA r : r.target = "User")]}
    /\ created = {}
    /\ store = (s_users :> <<UserRow(1, 1)>>)
    /\ pc = "idle"
    /\ frame = NoFrame
    /\ pending = NoQuery
    /\ trace = <<>>
    /\ outcome = NoOutcome
    /\ ncalls = 0
    /\ pools = IF pool = "ready" THEN <<"connected">> ELSE <<>>

NextPool ==
    \/ setPoolOptions
    \/ initDb
    \/ \E entity \in PoolInstances : save(entity)
    \/ save_resume
    \/ synchronize
    \/ sync_entity_resume
    \/ sync_join_resume
    \/ \E r \in repos : findAll(r, NoOptions)
    \/ \E r \in repos, c \in PoolCriterias : findOne(r, c, NoOptions)
    \/ \E r \in repos, c \in PoolCriterias : delete(r, c)
    \/ \E r \in repos, c \in PoolCriterias, u \in PoolUpdates : update(r, c, u)
    \/ findAll_resume
    \/ findOne_resume
    \/ write_resume

SpecPool == InitPool /\ [][NextPool]_vars

----------------------------------------------------------------------------
(* MetadataStorage called directly                                         *)

MaxAdds == 3   \* registration calls in one run

\* One of addEntity(d), addColumn(d), addRelation(d).
register(kind, d) ==
    /\ pc = "idle"
    /\ Len(entities) + Len(columns) + Len(relations) < MaxAdds
    /\ LET reg == [entities |-> entities, columns |-> columns, relations |-> relations]
           new == CASE kind = "addEntity" -> addEntity(reg, d)
                    [] kind = "addColumn" -> addColumn(reg, d)
                    [] OTHER -> addRelation(reg, d)
       IN  /\ entities' = new.entities
           /\ columns' = new.columns
           /\ relations' = new.relations
    /\ frame' = [NoFrame EXCEPT !.op = kind, !.args = <<d>>]
    /\ outcome' = Returned(<<>>)
    /\ trace' = <<>>
    /\ UNCHANGED <<pool, sqlCache, listeners, repos, created, store, pc, pending, ncalls, pools>>

\* The type tokens of the storage runs: two classes that are both named User.
TypeTokens == {"User", "UserB"}

EntityDescriptors ==
    [target : TypeTokens, tableName : {s_users, s_posts}]
ColumnDescriptors ==
    [target : TypeTokens, propertyName : {s_id, s_name}, primary : {FALSE},
     generated : {FALSE}]
RelationDescriptors ==
    [target : TypeTokens, propertyName : {s_posts, s_author},
     relationType : {"ManyToOne"}, relatedEntity : {"Post"}]

InitStorage ==
    /\ entities = <<>>
    /\ columns = <<>>
    /\ relations = <<>>
    /\ pool = "unset"
    /\ sqlCache = <<>>
    /\ listeners = [save |-> <<>>, synchronize |-> <<>>]
    /\ repos = {}
    /\ created = {}
    /\ store = <<>>
    /\ pc = "idle"
    /\ frame = NoFrame
    /\ pending = NoQuery
    /\ trace = <<>>
    /\ outcome = NoOutcome
    /\ ncalls = 0
    /\ pools = IF pool = "ready" THEN <<"connected">> ELSE <<>>

NextStorage ==
    \/ \E d \in EntityDescriptors : register("addEntity", d)
    \/ \E d \in ColumnDescriptors : register("addColumn", d)
    \/ \E d \in RelationDescriptors : register("addRelation", d)

SpecStorage == InitStorage /\ [][NextStorage]_vars

----------------------------------------------------------------------------
(* FastOrmModule.forRoot                                                   *)

\* Two more entries of the trace: pool.connect() is awaited, and
\* EntityRegistry.addEntities is called with the classes handed to forRoot.
EvConnect       == [ev |-> "connect", name |-> "pool.connect", tbl |-> <<>>,
                    q |-> NoQuery, arg |-> [cls |-> "undefined", props |-> <<>>]]
EvRegister(ents) == [ev |-> "register", name |-> "addEntities", tbl |-> ents,
                    q |-> NoQuery, arg |-> [cls |-> "undefined", props |-> <<>>]]

\* The options of forRoot that steer it: `entities` (a list, or absent) and
\* `synchronize` ("true", "false" or "absent").
RootOptions(ents, sync) == [entities |-> ents, synchronize |-> sync]
NoEntities == [defined |-> FALSE, list |-> <<>>]
Entities(list) == [defined |-> TRUE, list |-> list]

\* if (options.entities) EntityRegistry.addEntities(options.entities); the
\* call is then at the test of options.synchronize.
rootRegister(opts, tr) ==
    /\ LET reg == IF opts.entities.defined
                  THEN addEntitiesTo([entities |-> entities, columns |-> columns,
                                      relations |-> relations], opts.entities.list)
                  ELSE [entities |-> entities, columns |-> columns,
                        relations |-> relations]
       IN  /\ entities' = reg.entities
           /\ columns' = reg.columns
           /\ relations' = reg.relations
    /\ pc' = "forRoot:registered"
    /\ frame' = [NoFrame EXCEPT !.op = "forRoot", !.args = <<opts>>]
    /\ pending' = NoQuery
    /\ outcome' = NoOutcome
    /\ trace' = IF opts.entities.defined
                THEN Append(tr, EvRegister(opts.entities.list))
                ELSE tr

\* forRoot(options) up to its first await: setPoolOptions, then initDb().
\* Without a pool, create() assigns the new Pool and awaits connect(); with
\* one it returns it and forRoot goes on.
forRoot(opts) ==
    /\ pc = "idle"
    /\ ncalls < MaxCalls
    /\ ncalls' = ncalls + 1
    /\ IF pool # "ready"
       THEN /\ pool' = "ready"
            /\ pc' = "forRoot:connect"
            /\ frame' = [NoFrame EXCEPT !.op = "forRoot", !.args = <<opts>>]
            /\ pending' = NoQuery
            /\ outcome' = NoOutcome
            /\ trace' = <<EvConnect>>
            /\ pools' = Append(pools, "connecting")
            /\ UNCHANGED regVars
       ELSE /\ pool' = pool
            /\ pools' = pools
            /\ rootRegister(opts, <<>>)
    /\ UNCHANGED <<sqlCache, listeners, repos, created, store>>

\* After `await this.pool.connect()`: a rejection ends forRoot.
forRoot_connect_resume ==
    /\ pc = "forRoot:connect"
    /\ \E r \in {"ok"} \cup DbErrors :
          /\ pools' = [pools EXCEPT ![Len(pools)] = IF r = "ok" THEN "connected"
                                                                ELSE "failed"]
          /\ IF r = "ok"
             THEN rootRegister(frame.args[1], Append(trace, EvSettled("ok")))
             ELSE /\ throws(r)
                  /\ trace' = Append(trace, EvSettled(r))
                  /\ UNCHANGED regVars
    /\ UNCHANGED <<pool, sqlCache, listeners, repos, created, store, ncalls>>

\* A forRoot that synchronizes whatever the option says.
forRoot_synchronizeAlways ==
    /\ pc = "forRoot:registered"
    /\ syncEntities(1, trace)
    /\ UNCHANGED <<regVars, pool, sqlCache, listeners, repos, created, store, ncalls, pools>>

\* if (options.synchronize) await synchronize(); return the module.
forRoot_synchronize ==
    /\ pc = "forRoot:registered"
    /\ IF frame.args[1].synchronize = "true"
       THEN IF pool # "ready"
            THEN /\ throws("Pool not initialized")
                 /\ trace' = trace
            ELSE syncEntities(1, trace)
       ELSE /\ pc' = "idle"
            /\ frame' = frame
            /\ pending' = NoQuery
            /\ outcome' = Returned(<<>>)
            /\ trace' = trace
    /\ UNCHANGED <<regVars, pool, sqlCache, listeners, repos, created, store, ncalls, pools>>

\* The programs of the forRoot runs and the options handed to forRoot.
RootPrograms ==
    {<<UserWithRoles, RoleClass>>, <<RoleClass, DraftClass>>, <<DraftClass>>}

RootEntityLists ==
    {NoEntities} \cup {Entities(l) : l \in UNION {[1..n -> definedClasses] : n \in 1..2}}

InitRoot ==
    /\ \E p \in RootPrograms :
          /\ entities = LoadClasses(EmptyRegistry, p).entities
          /\ columns = LoadClasses(EmptyRegistry, p).columns
          /\ relations = LoadClasses(EmptyRegistry, p).relations
    /\ pool = "unset"
    /\ sqlCache = <<>>
    /\ listeners = [save |-> <<>>, synchronize |-> <<>>]
    /\ repos = {}
    /\ created = {}
    /\ store = <<>>
    /\ pc = "idle"
    /\ frame = NoFrame
    /\ pending = NoQuery
    /\ trace = <<>>
    /\ outcome = NoOutcome
    /\ ncalls = 0
    /\ pools = IF pool = "ready" THEN <<"connected">> ELSE <<>>

NextRoot ==
    \/ \E ents \in RootEntityLists, sync \in {"true", "false", "absent"} :
          forRoot(RootOptions(ents, sync))
    \/ forRoot_connect_resume
    \/ forRoot_synchronize
    \/ sync_entity_resume
    \/ sync_join_resume

SpecRoot == InitRoot /\ [][NextRoot]_vars

----------------------------------------------------------------------------
(* PoolFactory called directly, create() calls overlapping, with save and  *)
(* synchronize as callers of getPool                                       *)

InitCreate ==
    /\ entities = PoolRegistry.entities
    /\ columns = PoolRegistry.columns
    /\ relations = PoolRegistry.relations
    /\ pool = "unset"
    /\ sqlCache = <<>>
    /\ listeners = [save |-> <<>>, synchronize |-> <<>>]
    /\ repos = {}
    /\ created = {}
    /\ store = <<>>
    /\ pc = "idle"
    /\ frame = NoFrame
    /\ pending = NoQuery
    /\ trace = <<>>
    /\ outcome = NoOutcome
    /\ ncalls = 0
    /\ pools = <<>>

NextCreate ==
    \/ setPoolOptions
    \/ create
    \/ \E i \in 1..Len(pools) : create_resume(i)
    \/ getPool
    \/ \E entity \in PoolInstances : save(entity)
    \/ save_resume
    \/ synchronize
    \/ sync_entity_resume
    \/ sync_join_resume

SpecCreate == InitCreate /\ [][NextCreate]_vars

----------------------------------------------------------------------------
(* Reading a generated statement                                           *)

\* The numbers of the placeholders of a text, in order.
Placeholders(text) ==
    LET phs == SelectSeq(text, LAMBDA tok : tok.k = "$")
    IN  [i \in 1..Len(phs) |-> phs[i].v[1]]

hasToken(text, tok) == \E i \in 1..Len(text) : text[i] = tok

\* The position of the first WHERE of a text (0: none).
whereAt(text) ==
    IF hasToken(text, Kw("WHERE"))
    THEN CHOOSE i \in 1..Len(text) :
            text[i] = Kw("WHERE") /\ \A j \in 1..(i - 1) : text[j] # Kw("WHERE")
    ELSE 0

beforeWhere(text) == SubSeq(text, 1, whereAt(text) - 1)
afterWhere(text)  == SubSeq(text, whereAt(text) + 1, Len(text))

----------------------------------------------------------------------------
(* Claims                                                                  *)

\* C1: an update with n >= 1 update fields and m >= 1 criteria fields numbers
\* the SET placeholders $1..$n and the WHERE placeholders $n+1..$n+m, and
\* binds [...updateValues, ...criteriaValues], so that $k is the k-th value.
C1_UpdatePlaceholdersFollowValues ==
    (pc = "update" /\ Len(frame.updates) >= 1 /\ Len(frame.criteria) >= 1) =>
        LET n == Len(frame.updates)
            m == Len(frame.criteria)
        IN  /\ hasToken(pending.text, Kw("WHERE"))
            /\ Placeholders(beforeWhere(pending.text)) = [i \in 1..n |-> i]
            /\ Placeholders(afterWhere(pending.text)) = [j \in 1..m |-> n + j]
            /\ pending.values = Values(frame.updates) \o Values(frame.criteria)

\* C5: with an empty criteria mapping the statement of findOne and the
\* statement of delete contain no WHERE clause.
C5_EmptyCriteriaNoWhere ==
    (pc \in {"findOne", "delete"} /\ Len(frame.criteria) = 0) =>
        ~hasToken(pending.text, Kw("WHERE"))

\* The requested relation field f of the last call, declared on the
\* repository's class with a registered target.
hydrated(f) ==
    /\ pc = "idle"
    /\ outcome.status = "returned"
    /\ frame.op \in {"findAll", "findOne"}
    /\ includes(frame.options.relations, f)
    /\ \E i \in 1..Len(frame.repo.relations) :
          /\ frame.repo.relations[i].propertyName = f
          /\ getEntity(frame.repo.relations[i].relatedEntity) # NoEntity

relationOf(f) ==
    frame.repo.relations[CHOOSE i \in 1..Len(frame.repo.relations) :
                            frame.repo.relations[i].propertyName = f]

relatedTable(f) == getEntity(relationOf(f).relatedEntity).tableName

\* C4: after a requested relation field f (foreign key f_id, registered
\* target) is hydrated, every fetched row carries f: the related row whose id
\* equals the row's f_id, or null when f_id is null or no related row has it.
C4_EveryRowCarriesItsRelatedRow ==
    hydrated(s_author) =>
        \A i \in 1..Len(outcome.value) :
            LET row  == outcome.value[i]
                fk   == Get(row, s_author \o s__id)
                hits == SelectSeq(TableRows(relatedTable(s_author)),
                                  LAMBDA r : fk # Null /\ Get(r, s_id) = fk)
            IN  /\ s_author \in DOMAIN row
                /\ row[s_author] = IF Len(hits) = 0 THEN Null
                                   ELSE Object(relatedTable(s_author), hits[1])

\* C6: findAll({ relations: ['posts'] }) on the repository of an entity that
\* declares 'posts' as a OneToMany relation to a registered entity returns
\* every row with its related rows (the posts whose author is the row)
\* attached under 'posts'.
C6_OneToManyRowsAttached ==
    (hydrated(s_posts) /\ frame.op = "findAll"
        /\ relationOf(s_posts).relationType = "OneToMany") =>
        \A i \in 1..Len(outcome.value) :
            LET row == outcome.value[i]
                its == {j \in 1..Len(TableRows(relatedTable(s_posts))) :
                          Get(TableRows(relatedTable(s_posts))[j], s_author \o s__id)
                              = Get(row, s_id)}
            IN  /\ s_posts \in DOMAIN row
                /\ row[s_posts].t = "array"
                /\ row[s_posts].n = its

\* The positions of the trace where a statement of the given call site is issued.
issuedAt(site) == {k \in 1..Len(trace) : trace[k].ev = "query" /\ trace[k].name = site}

\* The table a CREATE statement names.
createdTable(text) == text[2].v

\* The unordered pairs of types linked by ManyToMany relations.
manyToManyPairs ==
    {{relations[i].target, relations[i].relatedEntity} :
        i \in {j \in 1..Len(relations) : relations[j].relationType = "ManyToMany"}}

\* C3: a run of synchronize() in which no statement fails issues exactly one
\* CREATE TABLE IF NOT EXISTS for each registered entity with at least one
\* column and exactly one join-table CREATE per unordered pair of types
\* linked by ManyToMany relations.
C3_OneCreatePerEntityAndPerPair ==
    (pc = "idle" /\ frame.op = "synchronize" /\ outcome.status = "returned") =>
        /\ \A i \in 1..Len(entities) :
              Len(getColumns(entities[i].target)) > 0 =>
                  Cardinality({k \in issuedAt("synchronize:entity") :
                                  createdTable(trace[k].q.text) = entities[i].tableName}) = 1
        /\ \A pair \in manyToManyPairs :
              Cardinality({k \in issuedAt("synchronize:join") :
                              \A c \in pair :
                                  hasToken(trace[k].q.text,
                                           Id(toLowerCase(ClassName(c)) \o s__id))}) = 1

\* a <= b in lexicographic order: a is a prefix of b, or a is smaller at the
\* first position where they differ.
LexLeq(a, b) ==
    \/ Len(a) <= Len(b) /\ \A i \in 1..Len(a) : a[i] = b[i]
    \/ \E k \in 1..Len(a) :
          /\ k <= Len(b)
          /\ a[k] < b[k]
          /\ \A i \in 1..(k - 1) : a[i] = b[i]

s_role_user == <<114, 111, 108, 101, 95, 117, 115, 101, 114>>   \* "role_user"

C10_FailedCreateStopsSynchronize ==
    frame.op = "synchronize" =>
        \A k \in 1..Len(trace) :
            (trace[k].ev = "settled" /\ trace[k].name # "ok") =>
                /\ pc = "idle"
                /\ outcome = Threw(trace[k].name)
                /\ \A j \in (k + 1)..Len(trace) : trace[j].ev \notin {"query", "emit"}
                /\ \A j \in 1..(k - 1) :
                      (trace[j].ev = "query" /\ trace[j + 1] = EvSettled("ok")) =>
                          createdTable(trace[j].q.text) \in created

\* C10 witness: a statement failed after an earlier statement of the run had
\* created its table.
C10_Witness ==
    /\ frame.op = "synchronize"
    /\ \E k \in 1..Len(trace) :
          /\ trace[k].ev = "settled"
          /\ trace[k].name # "ok"
          /\ \E j \in 1..(k - 1) : trace[j] = EvSettled("ok")

\* The column names an INSERT statement lists, in order.
insertColumns(text) ==
    LET close  == CHOOSE k \in 1..Len(text) : text[k] = Kw(") VALUES (")
        idents == SelectSeq(SubSeq(text, 4, close - 1), LAMBDA t : t.k = "ident")
    IN  [i \in 1..Len(idents) |-> idents[i].v]

\* The instance has no value for the property.
unset(entity, name) == name \notin DOMAIN entity.props \/ entity.props[name] = Undefined

\* The registered columns of a class, in registry order.
registeredColumns(cls) == SelectSeq(columns, LAMBDA c : c.target = cls)

\* C2: the INSERT issued by save for an instance whose type has an entity
\* descriptor and at least one column lists exactly the registered columns
\* that are not (generated and unset on the instance), in registry order: a
\* generated column left unset is excluded, the same column explicitly set is
\* included, every non-generated column is included whether set or not.
C2_InsertListsTheFilteredColumns ==
    pc = "save" =>
        LET e      == frame.entity
            listed == insertColumns(pending.text)
            kept   == SelectSeq(registeredColumns(e.cls),
                                LAMBDA c : ~c.generated \/ ~unset(e, c.propertyName))
        IN  /\ listed = [i \in 1..Len(kept) |-> kept[i].propertyName]
            /\ \A i \in 1..Len(registeredColumns(e.cls)) :
                  LET c == registeredColumns(e.cls)[i]
                      isListed == \E k \in 1..Len(listed) : listed[k] = c.propertyName
                  IN  /\ (c.generated /\ unset(e, c.propertyName)) => ~isListed
                      /\ (c.generated /\ ~unset(e, c.propertyName)) => isListed
                      /\ ~c.generated => isListed

\* C2 witness: the INSERT of a User whose generated id is unset and whose
\* name is set is awaited.
C2_Witness ==
    /\ pc = "save"
    /\ frame.entity.cls = "User"
    /\ unset(frame.entity, s_id)
    /\ ~unset(frame.entity, s_name)

\* The class has no entity descriptor, or no registered column.
noMetadata(cls) ==
    \/ ~\E i \in 1..Len(entities) : entities[i].target = cls
    \/ ~\E i \in 1..Len(columns) : columns[i].target = cls

\* C8: save(entity) for an instance whose type has no entity descriptor or no
\* registered column fails with the metadata-not-found error, issues no SQL
\* statement and emits no notification.
C8_NoMetadataFailsBeforeAnyEffect ==
    (frame.op = "save" /\ noMetadata(frame.entity.cls)) =>
        /\ pc = "idle"
        /\ outcome = Threw("Entity metadata not found for " \o frame.entity.cls)
        /\ pending = NoQuery
        /\ \A k \in 1..Len(trace) : trace[k].ev \notin {"query", "emit"}

\* C8 witness: save was called with an instance of Role, which has an entity
\* descriptor and no column.
C8_Witness ==
    /\ frame.op = "save"
    /\ frame.entity.cls = "Role"
    /\ outcome.status = "threw"

\* The positions of the trace holding an event of the given kind.
eventsAt(kind) == {k \in 1..Len(trace) : trace[k].ev = kind}

\* C9: a save call whose INSERT succeeded emits 'save' with the entity exactly
\* once, right after the INSERT completed; a save call whose INSERT failed
\* emits nothing, does not issue the statement again and ends with the error
\* of the INSERT.
C9_SaveNotificationFollowsTheInsert ==
    frame.op = "save" =>
        /\ Cardinality(eventsAt("emit")) <= 1
        /\ \A k \in eventsAt("emit") :
              /\ k > 1
              /\ trace[k - 1] = EvSettled("ok")
              /\ trace[k] = EvEmitEntity(frame.entity)
        /\ (pc = "idle" /\ \E k \in 1..Len(trace) : trace[k] = EvSettled("ok")) =>
              Cardinality(eventsAt("emit")) = 1
        /\ \A k \in eventsAt("settled") :
              trace[k].name # "ok" =>
                  /\ eventsAt("emit") = {}
                  /\ Cardinality(eventsAt("query")) = 1
                  /\ pc = "idle"
                  /\ outcome = Threw(trace[k].name)

\* C9 witness: a save call returned after its INSERT succeeded, with a
\* listener subscribed to 'save'.
C9_Witness ==
    /\ frame.op = "save"
    /\ pc = "idle"
    /\ outcome.status = "returned"
    /\ Len(listeners.save) > 0
    /\ eventsAt("emit") # {}

\* The registered entities that have no column.
withoutColumns == {i \in 1..Len(entities) : ~\E k \in 1..Len(columns) :
                                                columns[k].target = entities[i].target}

\* C11: synchronize skips a registered entity with zero columns without
\* failing: no CREATE statement and no notification is produced for it, the
\* run never ends with an error attributed to it, and a run in which nothing
\* fails issues the CREATE of every entity with columns (those registered
\* after the skipped one included) and of every ManyToMany relation.
C11_EntityWithoutColumnsIsSkipped ==
    (frame.op = "synchronize" /\ pool = "ready") =>
        /\ \A i \in withoutColumns :
              /\ \A k \in issuedAt("synchronize:entity") :
                    createdTable(trace[k].q.text) # entities[i].tableName
              /\ \A k \in 1..Len(trace) :
                    trace[k].ev = "emit" => trace[k].tbl # entities[i].tableName
              /\ \A k \in 1..Len(trace) :
                    (trace[k].ev = "log" /\ trace[k].tbl = entities[i].tableName) =>
                        trace[k].name = "warn"
              /\ (outcome.status = "threw" /\ Len(trace) > 0) =>
                    trace[Len(trace)] \notin {EvLog("warn", entities[i].tableName),
                                              EvLog("error", entities[i].tableName)}
        /\ (pc = "idle" /\ outcome.status = "returned") =>
              /\ \A j \in (1..Len(entities)) \ withoutColumns :
                    \E k \in issuedAt("synchronize:entity") :
                        createdTable(trace[k].q.text) = entities[j].tableName
              /\ Cardinality(issuedAt("synchronize:join")) =
                    Cardinality({j \in 1..Len(relations) :
                                    relations[j].relationType = "ManyToMany"})

\* C11 witness: a run returned in which an entity without columns was
\* registered before an entity whose table was created and before a join table.
C11_Witness ==
    /\ frame.op = "synchronize"
    /\ pc = "idle"
    /\ outcome.status = "returned"
    /\ \E i \in withoutColumns : \E j \in (i + 1)..Len(entities) :
          /\ j \notin withoutColumns
          /\ entities[j].tableName \in created
    /\ issuedAt("synchronize:join") # {}

\* The class has an entity descriptor in the registry.
registered(cls) == \E i \in 1..Len(entities) : entities[i].target = cls

\* The table name of the first descriptor registered for the class.
descriptorTable(cls) ==
    entities[CHOOSE i \in 1..Len(entities) :
                /\ entities[i].target = cls
                /\ \A j \in 1..(i - 1) : entities[j].target # cls].tableName

RepositoryOps == {"findAll", "findOne", "update", "delete", "loadRelations"}

\* C12: new Repository(T) for a type without entity descriptor throws 'Entity
\* not registered' and yields no repository, so every repository, and every
\* repository operation and statement, belongs to a registered type; the table
\* of a repository is the table name of its type's descriptor.
C12_RepositoryOnlyForRegisteredTypes ==
    /\ frame.op = "new Repository" =>
          IF registered(frame.repo.EntityClass)
          THEN /\ outcome.status = "returned"
               /\ \E r \in repos : /\ r.EntityClass = frame.repo.EntityClass
                                   /\ r.table = descriptorTable(r.EntityClass)
          ELSE /\ outcome = Threw("Entity not registered: " \o frame.repo.EntityClass)
               /\ trace = <<>>
    /\ \A r \in repos : registered(r.EntityClass) /\ r.table = descriptorTable(r.EntityClass)
    /\ frame.op \in RepositoryOps =>
          /\ registered(frame.repo.EntityClass)
          /\ \A k \in 1..Len(trace) :
                (trace[k].ev = "query" /\ trace[k].name # "loadRelations") =>
                    hasToken(trace[k].q.text, Id(descriptorTable(frame.repo.EntityClass)))

\* C12 witness: new Repository(Role) was called while Role has no descriptor.
C12_Witness ==
    /\ frame.op = "new Repository"
    /\ frame.repo.EntityClass = "Role"
    /\ ~registered("Role")
    /\ outcome.status = "threw"

\* The number of entity descriptors the registry holds for the class.
descriptors(cls) == Cardinality({i \in 1..Len(entities) : entities[i].target = cls})

s_role  == <<114, 111, 108, 101>>        \* "role"
s_draft == <<100, 114, 97, 102, 116>>    \* "draft"

\* C13: after the @Entity registration of a type followed by any number of
\* addEntities calls naming it (alone, twice in one list, with other types),
\* the registry holds exactly one entity descriptor for the type, with the
\* table name registered first: @Entity('users') is not replaced by the
\* lower-cased class name, and a type registered by addEntities alone keeps
\* the lower-cased class name.
C13_AddEntitiesKeepsOneDescriptor ==
    /\ \A cls \in definedClasses : descriptors(cls) <= 1
    /\ frame.op = "addEntities" =>
          \A k \in 1..Len(frame.args) : descriptors(frame.args[k]) = 1
    /\ registered("User") => descriptorTable("User") = s_users
    /\ registered("Role") => descriptorTable("Role") = s_role
    /\ registered("Draft") => descriptorTable("Draft") = s_draft

\* C13 witness: the second addEntities call has named User, a class
\* registered by @Entity('users').
C13_Witness ==
    /\ frame.op = "addEntities"
    /\ ncalls = 2
    /\ \E k \in 1..Len(frame.args) : frame.args[k] = "User"
    /\ descriptorTable("User") = s_users

\* The statement the running (or last) repository call handed to pool.query first.
issuedFirst(tr) == tr[CHOOSE k \in 1..Len(tr) : tr[k].ev = "query"].q

\* Two findAll calls have the same table, select, orderBy and limit.
sameShape(f, g) ==
    /\ f.repo.table = g.repo.table
    /\ f.options.select = g.options.select
    /\ f.options.orderBy = g.options.orderBy
    /\ f.options.limit = g.options.limit

\* C14: the SQL-text cache is write-once per key. In every step an entry
\* stored stays as it is; the builder runs only for a key that has no entry
\* (so at most once per key); the statement a repository call executes is the
\* entry of its key; a findAll call that follows a findAll call of the same
\* table, select, orderBy and limit executes the same text.
C14_SqlCacheIsWriteOnce ==
    [][/\ \A key \in DOMAIN sqlCache :
             key \in DOMAIN sqlCache' /\ sqlCache'[key] = sqlCache[key]
       /\ (pc = "idle" /\ pc' \in {"findAll", "findOne", "update", "delete"}) =>
             /\ \A k \in 1..Len(trace') :
                   trace'[k].ev = "build" =>
                       /\ trace'[k].q.name \notin DOMAIN sqlCache
                       /\ trace'[k].q.name = pending'.name
                       /\ Cardinality({j \in 1..Len(trace') : trace'[j].ev = "build"}) = 1
             /\ pending'.name \in DOMAIN sqlCache'
             /\ pending'.text = sqlCache'[pending'.name]
             /\ (pending'.name \in DOMAIN sqlCache) =>
                   \A k \in 1..Len(trace') : trace'[k].ev # "build"
       /\ (pc = "idle" /\ pc' = "findAll" /\ frame.op = "findAll"
             /\ (\E k \in 1..Len(trace) : trace[k].ev = "query")
             /\ sameShape(frame, frame')) =>
             pending'.text = issuedFirst(trace).text
      ]_vars

\* C14 witness: the second call of a run is a findAll served from the cache
\* (its builder did not run).
C14_Witness ==
    /\ pc = "findAll"
    /\ ncalls = 2
    /\ \A k \in 1..Len(trace) : trace[k].ev # "build"
    /\ pending.text = sqlCache[pending.name]

\* The first statement of the running (or last) call was answered with rows.
answered == Len(trace) >= 2 /\ \E k \in 1..Len(trace) :
                /\ trace[k].ev = "query"
                /\ trace[k].name = frame.op
                /\ k < Len(trace)
                /\ trace[k + 1] = EvSettled("ok")

\* C15: when the statement of findOne is answered with no row, findOne
\* returns null: it raises no error and issues no relation lookup, whatever
\* relations were asked for; when it is answered with a row and findOne
\* returns, it returns that row (a row of the table, with what hydration
\* attached to it).
C15_FindOneReturnsFirstRowOrNull ==
    (frame.op = "findOne" /\ answered /\ pc = "idle") =>
        IF frame.rows = <<>>
        THEN /\ outcome = Returned(<<>>)
             /\ issuedAt("loadRelations") = {}
             /\ Cardinality(eventsAt("query")) = 1
        ELSE outcome.status = "returned" =>
                /\ Len(outcome.value) = 1
                /\ \E i \in 1..Len(TableRows(frame.repo.table)) :
                      \A f \in DOMAIN TableRows(frame.repo.table)[i] :
                          Get(outcome.value[1], f) = TableRows(frame.repo.table)[i][f]

\* C15 witness: findOne with relations requested was answered with no row and
\* has returned.
C15_Witness ==
    /\ frame.op = "findOne"
    /\ answered
    /\ pc = "idle"
    /\ frame.rows = <<>>
    /\ Len(frame.options.relations) > 0
    /\ outcome.status = "returned"

DatabaseOps == {"save", "synchronize", "findAll", "findOne", "update", "delete"}

\* The last call was a database operation made while no pool exists, and it
\* issued no statement.
failedWithoutStatement ==
    /\ pc = "idle"
    /\ pending = NoQuery
    /\ outcome.status = "threw"
    /\ \A k \in 1..Len(trace) : trace[k].ev \notin {"query", "build", "emit"}
    /\ sqlCache = <<>>

\* C16 as stated: every database operation invoked before the pool has been
\* initialized fails with 'Pool not initialized' and issues no SQL statement.
C16_EveryOperationFailsPoolNotInitialized ==
    (pool # "ready" /\ frame.op \in DatabaseOps) =>
        /\ failedWithoutStatement
        /\ outcome.error = "Pool not initialized"

\* C16 amended: every database operation invoked before the pool has been
\* initialized fails and issues no SQL statement; the failure is 'Pool not
\* initialized', except for save of an instance whose type has no entity
\* descriptor or no column, which fails with the metadata-not-found error.
C16_OperationsFailBeforePoolInit ==
    (pool # "ready" /\ frame.op \in DatabaseOps) =>
        /\ failedWithoutStatement
        /\ outcome.error =
              IF frame.op = "save" /\ noMetadata(frame.entity.cls)
              THEN "Entity metadata not found for " \o frame.entity.cls
              ELSE "Pool not initialized"

\* C16 witness: synchronize was called after setPoolOptions and before initDb.
C16_Witness ==
    /\ pool = "configured"
    /\ frame.op = "synchronize"
    /\ outcome = Threw("Pool not initialized")

\* The distinct non-null foreign-key values the fetched rows hold for a relation.
foreignKeyValues(rows, rel) ==
    {Get(rows[i], rel.propertyName \o s__id) : i \in 1..Len(rows)} \ {Null, Undefined}

\* The relation descriptors of the repository that a call asked for and whose
\* target is registered.
requestedRelations(f) ==
    {j \in 1..Len(f.repo.relations) :
        /\ includes(f.options.relations, f.repo.relations[j].propertyName)
        /\ registered(f.repo.relations[j].relatedEntity)}

\* C17: a findAll/findOne call that returned has issued, for each requested
\* relation descriptor with a registered target, exactly one lookup whose
\* bound ids are the distinct non-null foreign-key values of the fetched rows,
\* each once, and no lookup when there is no such value; nothing else issues
\* a lookup.
C17_OneBatchedLookupPerRelation ==
    (frame.op \in {"findAll", "findOne"} /\ pc = "idle" /\ outcome.status = "returned") =>
        /\ \A j \in requestedRelations(frame) :
              LET fks     == foreignKeyValues(frame.rows, frame.repo.relations[j])
                  table   == getEntity(frame.repo.relations[j].relatedEntity).tableName
                  lookups == {k \in issuedAt("loadRelations") :
                                 hasToken(trace[k].q.text, Id(table))}
              IN  IF fks = {} THEN lookups = {}
                  ELSE /\ Cardinality(lookups) = 1
                       /\ \A k \in lookups :
                             /\ {trace[k].q.values[i] : i \in 1..Len(trace[k].q.values)} = fks
                             /\ Len(trace[k].q.values) = Cardinality(fks)
        /\ Cardinality(issuedAt("loadRelations")) =
              Cardinality({j \in requestedRelations(frame) :
                              foreignKeyValues(frame.rows, frame.repo.relations[j]) # {}})

\* C18: the caching Repository tells findOne calls apart by table and criteria
\* field names only. A findOne call executes the text stored for its table and
\* field names when there is one, with its own criteria values bound; so a
\* findOne that follows a findOne with the same field names executes the text
\* of that call, also when its select or its criteria values differ.
C18_FindOneReusesTextByFieldNames ==
    [][(pc = "idle" /\ pc' = "findOne") =>
          LET key == <<Id(frame'.repo.table), Kw("-findOne-")>>
                        \o joinKeys(frame'.criteria)
          IN  /\ pending'.name = key
              /\ pending'.values = Values(frame'.criteria)
              /\ key \in DOMAIN sqlCache => pending'.text = sqlCache[key]
              /\ (/\ frame.op = "findOne"
                  /\ \E k \in 1..Len(trace) : trace[k].ev = "query"
                  /\ frame.repo.table = frame'.repo.table
                  /\ Keys(frame.criteria) = Keys(frame'.criteria)) =>
                    pending'.text = issuedFirst(trace).text
      ]_vars

\* C18 witness: the second findOne of a run executes a text that was not
\* generated from its own select list, with its own criteria value bound.
C18_Witness ==
    /\ pc = "findOne"
    /\ ncalls = 2
    /\ \A k \in 1..Len(trace) : trace[k].ev # "build"
    /\ pending.text # findOneSQL(frame.repo.table, frame.criteria, frame.options)
    /\ pending.values = <<Number(2)>>

\* C19: in a run of synchronize every CREATE statement that succeeded is
\* followed at once (before any other statement) by one 'synchronize'
\* notification carrying its table name; there is no other notification, so
\* none for a failed statement or a skipped entity; every join-table statement
\* is issued after all entity-table statements.
C19_SynchronizeNotifiesEachCreatedTable ==
    frame.op = "synchronize" =>
        /\ \A k \in 1..Len(trace) :
              trace[k] = EvSettled("ok") =>
                  /\ k > 1 /\ k < Len(trace)
                  /\ trace[k - 1].ev = "query"
                  /\ trace[k + 1] = EvEmitTable(createdTable(trace[k - 1].q.text))
        /\ \A k \in eventsAt("emit") :
              /\ k > 2
              /\ trace[k - 1] = EvSettled("ok")
              /\ trace[k - 2].ev = "query"
              /\ trace[k].name = "synchronize"
              /\ trace[k].tbl = createdTable(trace[k - 2].q.text)
              /\ \A i \in withoutColumns : trace[k].tbl # entities[i].tableName
        /\ \A k \in eventsAt("settled") :
              (trace[k].name # "ok" /\ k < Len(trace)) => trace[k + 1].ev # "emit"
        /\ \A i \in issuedAt("synchronize:entity"), j \in issuedAt("synchronize:join") : i < j
        /\ issuedAt("synchronize:join") # {} =>
              \A i \in (1..Len(entities)) \ withoutColumns :
                  \E k \in issuedAt("synchronize:entity") :
                      createdTable(trace[k].q.text) = entities[i].tableName

\* C19 witness: a run with a subscribed listener returned after notifying an
\* entity table and a join table.
C19_Witness ==
    /\ frame.op = "synchronize"
    /\ pc = "idle"
    /\ outcome.status = "returned"
    /\ Len(listeners.synchronize) > 0
    /\ \E k \in eventsAt("emit") : trace[k - 2].name = "synchronize:entity"
    /\ \E k \in eventsAt("emit") : trace[k - 2].name = "synchronize:join"

\* xs is an initial part of ys.
isPrefix(xs, ys) == Len(xs) <= Len(ys) /\ \A i \in 1..Len(xs) : ys[i] = xs[i]

\* The descriptors of a list whose target is the type token, in list order.
RECURSIVE descriptorsOf(_, _)
descriptorsOf(list, token) ==
    IF Len(list) = 0 THEN <<>>
    ELSE IF list[Len(list)].target = token
    THEN Append(descriptorsOf(SubSeq(list, 1, Len(list) - 1), token), list[Len(list)])
    ELSE descriptorsOf(SubSeq(list, 1, Len(list) - 1), token)

\* C20: the registry is append-only. Every registration call leaves the
\* descriptors added earlier in place and unchanged and adds its descriptor
\* at the end of its list; afterwards getColumns(T) and getRelations(T) are
\* the descriptors added for the type token T, in the order added (a class of
\* the same name is another token), and getEntity(T) is the first descriptor
\* added for T, or not-found.
C20_RegistryIsAppendOnly ==
    [][/\ isPrefix(entities, entities')
       /\ isPrefix(columns, columns')
       /\ isPrefix(relations, relations')
       /\ frame'.op = "addEntity" =>
             /\ entities' = Append(entities, frame'.args[1])
             /\ columns' = columns /\ relations' = relations
       /\ frame'.op = "addColumn" =>
             /\ columns' = Append(columns, frame'.args[1])
             /\ entities' = entities /\ relations' = relations
       /\ frame'.op = "addRelation" =>
             /\ relations' = Append(relations, frame'.args[1])
             /\ entities' = entities /\ columns' = columns
       /\ \A T \in TypeTokens :
             /\ getColumns(T)' = descriptorsOf(columns', T)
             /\ getRelations(T)' = descriptorsOf(relations', T)
             /\ getEntity(T)' = IF descriptorsOf(entities', T) = <<>> THEN NoEntity
                                ELSE descriptorsOf(entities', T)[1]
      ]_vars

\* C20 witness: two columns were added for one class and one for the other
\* class of the same name, the latter between the two.
C20_Witness ==
    /\ Len(columns) = 3
    /\ columns[1].target = "User"
    /\ columns[2].target = "UserB"
    /\ columns[3].target = "User"
    /\ columns[1] # columns[3]
    /\ frame.op = "addColumn"

\* The positions of the trace that hold an event of one of the kinds.
eventsOf(tr, kinds) == {i \in 1..Len(tr) : tr[i].ev \in kinds}

\* The steps of the forRoot call seen so far are in order: connecting comes
\* first and has settled successfully before anything else happens,
\* registering comes before every statement, and a connection attempt that
\* failed is the end of the call.
rootInOrder ==
    LET tr == trace IN
    /\ \A c \in eventsOf(tr, {"connect"}) :
          /\ c = 1
          /\ \A k \in eventsOf(tr, {"register", "query"}) : tr[c + 1] = EvSettled("ok")
          /\ (Len(tr) > c /\ tr[c + 1] # EvSettled("ok")) =>
                /\ Len(tr) = c + 1
                /\ pc = "idle"
                /\ outcome.status = "threw"
    /\ \A r \in eventsOf(tr, {"register"}), q \in eventsOf(tr, {"query"}) : r < q
    /\ \A q \in eventsOf(tr, {"query"}) : pool = "ready"

\* C21: forRoot runs its steps in order. Connecting has completed before the
\* entity types are registered and synchronize starts after both; when the
\* connection attempt fails the call ends there with the registry as it was
\* and no statement; when the synchronize option is false or absent the call
\* returns from the registration without issuing a statement.
C21_ForRootRunsItsStepsInOrder ==
    [][/\ rootInOrder'
       /\ (pc = "forRoot:connect" /\ outcome'.status = "threw") =>
             /\ entities' = entities
             /\ eventsOf(trace', {"register", "query"}) = {}
             /\ pending' = NoQuery
       /\ pc' = "forRoot:registered" =>
             /\ pool = "ready"
             /\ pc \in {"idle", "forRoot:connect"}
       /\ (pc = "forRoot:registered" /\ frame.args[1].synchronize # "true") =>
             /\ pc' = "idle"
             /\ outcome'.status = "returned"
             /\ eventsOf(trace', {"query"}) = {}
             /\ created' = created
       /\ (pc' \in {"synchronize:entity", "synchronize:join"} /\ pc = "forRoot:registered") =>
             frame.args[1].synchronize = "true"
      ]_vars

\* C21 witness: a forRoot call connected, registered a class that had no
\* entity descriptor and went on to issue a CREATE statement.
C21_Witness ==
    /\ Len(trace) >= 4
    /\ trace[1] = EvConnect
    /\ trace[2] = EvSettled("ok")
    /\ trace[3].ev = "register"
    /\ trace[4].ev = "query"
    /\ \E i \in 1..Len(entities) : entities[i].target = "Draft"

\* A forRoot call whose connection attempt failed.
C21_WitnessConnectFailed ==
    /\ frame.op = "forRoot"
    /\ Len(trace) = 2
    /\ trace[1] = EvConnect
    /\ trace[2] \in {EvSettled(e) : e \in DbErrors}
    /\ outcome.status = "threw"

\* The table names a CREATE statement refers to in its foreign-key constraints.
referencedTables(text) ==
    {text[p + 1].v : p \in {q \in 1..(Len(text) - 1) : text[q] = Kw(") REFERENCES")}}

\* The tables whose CREATE statement succeeded before position k of the trace.
createdBefore(k) ==
    {createdTable(trace[j].q.text) :
        j \in {i \in 1..(k - 1) : /\ trace[i].ev = "query"
                                  /\ trace[i + 1] = EvSettled("ok")}}

\* The registered table names of the types the relations of a table's entity
\* hold a foreign key to (an unregistered type has none).
foreignKeyTargets(tableName) ==
    {getEntity(relations[r].relatedEntity).tableName :
        r \in {i \in 1..Len(relations) :
                 /\ relations[i].relationType \in {"ManyToOne", "OneToOne"}
                 /\ getEntity(relations[i].target) # NoEntity
                 /\ getEntity(relations[i].target).tableName = tableName
                 /\ getEntity(relations[i].relatedEntity) # NoEntity}}

\* C22: every foreign-key constraint of an entity-table CREATE statement
\* issued by synchronize references the registered table name of the target
\* entity, and that table was created by an earlier statement of the run.
C22_ForeignKeysReferenceCreatedTables ==
    \A k \in issuedAt("synchronize:entity") :
        /\ referencedTables(trace[k].q.text) = foreignKeyTargets(createdTable(trace[k].q.text))
        /\ referencedTables(trace[k].q.text) \subseteq createdBefore(k)

\* C23: save reports a failure only when the metadata is missing, the pool is
\* not initialized or the INSERT failed; a save whose INSERT succeeded
\* returns without error and without the failure log, whatever the 'save'
\* listeners do.
C23_SaveFailsOnlyForItsOwnReasons ==
    (frame.op = "save" /\ pc = "idle") =>
        /\ outcome.status = "threw" =>
              \/ noMetadata(frame.entity.cls)
              \/ pool # "ready"
              \/ \E k \in eventsAt("settled") : trace[k].name \in DbErrors
        /\ (\E k \in eventsAt("settled") : trace[k].name = "ok") =>
              /\ outcome.status = "returned"
              /\ eventsAt("log") = {}

\* C24: every INSERT issued by save names at least one column and has as many
\* placeholders as columns, numbered $1..$n in column order, the i-th bound
\* value being the instance's value of the i-th listed column; so also for an
\* entity whose only columns are generated and unset.
C24_InsertNamesItsColumnsAndValues ==
    pc = "save" =>
        LET listed == insertColumns(pending.text)
        IN  /\ Len(listed) >= 1
            /\ Placeholders(pending.text) = [i \in 1..Len(listed) |-> i]
            /\ Len(pending.values) = Len(listed)
            /\ \A i \in 1..Len(listed) :
                  pending.values[i] = Get(frame.entity.props, listed[i])

\* C25: across any interleaving of PoolFactory.create() calls at most one
\* Pool is constructed, and getPool() returns a pool only after a create()
\* call has completed successfully: after a create() whose connection attempt
\* failed, and while a create() awaits its connection, getPool() fails with
\* 'Pool not initialized'.
C25_OnePoolAndOnlyOnceConnected ==
    /\ Len(pools) <= 1
    /\ frame.op = "getPool" =>
          /\ outcome.status = "returned" => \E i \in 1..Len(pools) : pools[i] = "connected"
          /\ (\A i \in 1..Len(pools) : pools[i] \in {"connecting", "failed"}) =>
                outcome = Threw("Pool not initialized")

====
